---- MODULE Spec2Model ----
(***************************************************************************)
(* State-machine model of the useChatMessages hook                         *)
(* (src/src/hooks/useChatMessages.ts): the conversation, the loading flag, *)
(* the AbortController ref, and every invocation of the async function     *)
(* sendMessage with its position (the await it is suspended at) and its    *)
(* locals.                                                                 *)
(*                                                                         *)
(* Representation.  A JavaScript string is a sequence of tokens (<<>> is   *)
(* the empty string, " " is a whitespace token), so that trim, += and join *)
(* are computed and not assumed.  An optional value (a field that may be   *)
(* undefined) is <<>> (undefined) or <<v>>.  Timestamps of messages and of *)
(* timeline entries (new Date()) are not kept: nothing reads them.         *)
(*                                                                         *)
(* Scheduling.  sendMessage runs synchronously up to its first await and   *)
(* between awaits; an operation of the hook (sendMessage, cancelRequest,   *)
(* clearMessages) or the settling of an awaited promise is one step.       *)
(* abort() only marks the controller's signal: the awaited fetch / read    *)
(* then fails with an AbortError in a later step, on the host's schedule.  *)
(* React re-renders after each event handler, so the isLoading value the   *)
(* callbacks close over is the current state value.                        *)
(***************************************************************************)
EXTENDS Integers, Sequences, FiniteSets, TLC

\* ------------------------------------------------------------- bounds
\* Number of times sendMessage may admit a turn in one behaviour.
MaxTurns == 2
\* Number of stream lines the network delivers in one behaviour of Spec.
MaxLines == 3
\* Number of stream lines the network delivers in one behaviour of SpecTurn.
MaxTurnLines == 5
\* stream lines delivered in a behaviour of SpecLong
MaxLongLines == 1
\* stream lines delivered in a behaviour of SpecFair
MaxFairLines == 1
\* stream lines delivered in a behaviour of SpecAgents
MaxAgentLines == 1
\* turns admitted in a behaviour of SpecAgents
MaxAgentTurns == 1
\* turns admitted and stream lines delivered in a behaviour of SpecErrors
MaxErrorTurns == 1
MaxErrorLines == 2
\* pieces of the response body in one chunk of SpecChunks
MaxChunk == 17
\* turns admitted and stream lines delivered in a behaviour of SpecSwitch
MaxSwitchTurns == 2
MaxSwitchLines == 1

\* ------------------------------------------------- program constants
MAX_MESSAGES == 100

ERROR_PREFIX == "PAWS right there! We have hit a snag :("
USER_CANCELED == "User canceled the request"
API_ERROR == "API Error"
UNKNOWN_ERROR == "Unknown error"
NO_READABLE_STREAM == "No readable stream available"
RESPONSE_COMPLETED == "Response completed"
PROCESSING_RESULTS == "Processing results..."

\* ------------------------------------------------------------ values
None == <<>>
Some(v) == <<v>>

\* A one-token string.
Str(tok) == <<tok>>
\* The separator '\n\n' of the template strings and of join('\n\n').
NLNL == "\n\n"

IsSpace(tok) == tok = " "

RECURSIVE TrimStart(_)
TrimStart(s) ==
  IF s # <<>> /\ IsSpace(Head(s)) THEN TrimStart(Tail(s)) ELSE s

RECURSIVE TrimEnd(_)
TrimEnd(s) ==
  IF s # <<>> /\ IsSpace(s[Len(s)]) THEN TrimEnd(SubSeq(s, 1, Len(s) - 1)) ELSE s

\* String.prototype.trim
Trim(s) == TrimEnd(TrimStart(s))

\* Array.prototype.slice(-n)
SliceLast(seq, n) ==
  IF Len(seq) > n THEN SubSeq(seq, Len(seq) - n + 1, Len(seq)) ELSE seq

\* A join that drops the separator.
RECURSIVE Join_NoSeparator(_, _)
Join_NoSeparator(parts, sep) ==
  IF parts = <<>> THEN <<>>
  ELSE parts[1] \o Join_NoSeparator(Tail(parts), sep)

\* Array.prototype.join(sep) on an array of strings.
RECURSIVE Join(_, _)
Join(parts, sep) ==
  IF parts = <<>> THEN <<>>
  ELSE IF Len(parts) = 1 THEN parts[1]
  ELSE parts[1] \o <<sep>> \o Join(Tail(parts), sep)

\* ---------------------------------------------------------- messages
\* A ChatMessage (src/unnamed/part_001).  Fields the constructor leaves out
\* are undefined: None for an optional scalar, <<>> for a list (every read
\* of a list field is 'msg.field || []'), "undefined" for the status.
\* messageId + '_user', messageId + '_assistant'
UserId(messageId) == <<messageId, "_user">>
AssistantId(messageId) == <<messageId, "_assistant">>

UserMessage(base, text) ==
  [id |-> UserId(base), sender |-> "user", text |-> text,
   status |-> "undefined", isStreaming |-> None, streamingStatus |-> None,
   thinkingSteps |-> <<>>, thinkingTexts |-> <<>>, sqlQueries |-> <<>>,
   charts |-> <<>>, annotations |-> <<>>, timeline |-> <<>>,
   toolsUsed |-> <<>>, error |-> None]

AssistantMessage(base) ==
  [id |-> AssistantId(base), sender |-> "assistant", text |-> <<>>,
   status |-> "thinking", isStreaming |-> Some(TRUE), streamingStatus |-> None,
   thinkingSteps |-> <<>>, thinkingTexts |-> <<>>, sqlQueries |-> <<>>,
   charts |-> <<>>, annotations |-> <<>>, timeline |-> <<>>,
   toolsUsed |-> <<>>, error |-> None]

\* AppendPair trimmed with slice(0, MAX_MESSAGES): the newest messages are
\* the ones cut off.
AppendPair_KeepOldest(prev, base, text) ==
  SubSeq(prev \o <<UserMessage(base, text), AssistantMessage(base)>>, 1,
         IF Len(prev) + 2 > MAX_MESSAGES THEN MAX_MESSAGES ELSE Len(prev) + 2)

\* AppendPair trimmed to one message fewer than MAX_MESSAGES: an odd
\* number of messages is kept.
AppendPair_OddLimit(prev, base, text) ==
  SliceLast(prev \o <<UserMessage(base, text), AssistantMessage(base)>>,
            MAX_MESSAGES - 1)

\* setMessages(prev => [...prev, userMessage, assistantMessage] trimmed)
AppendPair(prev, base, text) ==
  SliceLast(prev \o <<UserMessage(base, text), AssistantMessage(base)>>,
            MAX_MESSAGES)

\* setMessages(prev => prev.map(msg => msg.id === id ? patch(msg) : msg))
\* patched[i] is the patch applied to prev[i].
MapById(prev, id, patched) ==
  [i \in DOMAIN prev |-> IF prev[i].id = id THEN patched[i] ELSE prev[i]]

Includes(seq, v) == \E i \in DOMAIN seq : seq[i] = v

Entry(type, content) == [type |-> type, content |-> content]

\* ---------------------------------------------------------- payloads
\* What JSON.parse(dataStr) gives, as far as the handler reads it.  json is
\* "invalid" when the text does not parse (JSON.parse throws), "value" when
\* it parses to a non-null value whose properties are the fields below
\* (None: the property is undefined).
NoAnnotation ==
  [type |-> None, text |-> None, url |-> None, doc_id |-> None,
   doc_title |-> None, source |-> None, search_result_id |-> None,
   index |-> None]

EmptyPayload ==
  [json |-> "value", text |-> None, message |-> None, thinking |-> None,
   chart_spec |-> None, annotation |-> None,
   type |-> None, url |-> None, doc_id |-> None, doc_title |-> None,
   source |-> None, search_result_id |-> None, index |-> None,
   start_index |-> None, end_index |-> None, annotation_index |-> None,
   content_index |-> None, sql |-> None, verification |-> None]

InvalidJson == [EmptyPayload EXCEPT !.json = "invalid"]

\* A string holding JSON text that encodes value v, and one that does not
\* parse.
JsonText(v) == [enc |-> "json", val |-> v]
NotJsonText == [enc |-> "garbage", val |-> [text |-> "not-json"]]

\* A parser that never throws: text that is not JSON is handed on as it is.
JsonParse_NeverThrows(s) == Some(s.val)

\* JSON.parse on such a string: Some(value), or None when it throws.
JsonParse(s) == IF s.enc = "json" THEN Some(s.val) ELSE None

\* Truthiness of an optional string: defined and not ''.
Truthy(opt) == opt # None /\ opt[1] # <<>>

\* a || b on optional strings
OrElse(a, b) == IF Truthy(a) THEN a ELSE b

\* extractSqlQuery(data), extractVerificationInfo(data): the payload carries
\* what the two extraction functions return for it.
extractSqlQuery(data) == data.sql
extractVerificationInfo(data) == data.verification

\* getApiStatusMessage: the raw API message, or 'Processing...' for ''.
getApiStatusMessage(statusMessage) ==
  IF statusMessage # <<>> THEN statusMessage ELSE Str("Processing...")

\* ------------------------------------------------- the event patches
\* Each is the object the map callback returns for the addressed message.

\* response.text.delta
TextDeltaPatch(msg, currentText) ==
  [msg EXCEPT !.text = currentText, !.status = "thinking",
              !.isStreaming = Some(TRUE)]

\* A label appended without looking for it in the list.
AddStep_Always(steps, label) == Append(steps, label)

\* dedup of a label into thinkingSteps
AddStep(steps, label) ==
  IF Includes(steps, label) THEN steps ELSE Append(steps, label)

\* A status patch that writes no timeline entry for a label the step list
\* already has.
StatusPatch_SkipsKnownLabel(msg, statusMessage) ==
  [msg EXCEPT !.status = "thinking",
              !.streamingStatus = Some(statusMessage),
              !.thinkingSteps = AddStep(@, statusMessage),
              !.timeline = IF Includes(msg.thinkingSteps, statusMessage)
                           THEN @
                           ELSE Append(@, Entry("status", statusMessage))]

\* A status patch that puts its timeline entry in front.
StatusPatch_Prepends(msg, statusMessage) ==
  [msg EXCEPT !.status = "thinking",
              !.streamingStatus = Some(statusMessage),
              !.thinkingSteps = AddStep(@, statusMessage),
              !.timeline = <<Entry("status", statusMessage)>> \o @]

\* response.status
StatusPatch(msg, statusMessage) ==
  [msg EXCEPT !.status = "thinking",
              !.streamingStatus = Some(statusMessage),
              !.thinkingSteps = AddStep(@, statusMessage),
              !.timeline = Append(@, Entry("status", statusMessage))]

\* A tool-result patch that records the SQL without a timeline entry for it.
ToolResultPatch_NoSqlEntry(msg, toolStatus, sqlQuery, verificationInfo) ==
  [msg EXCEPT !.status = "thinking",
              !.streamingStatus = Some(toolStatus),
              !.thinkingSteps = AddStep(@, toolStatus),
              !.sqlQueries =
                 IF Truthy(sqlQuery)
                 THEN Append(@, [sql |-> sqlQuery[1],
                                 verification |-> verificationInfo])
                 ELSE @,
              !.timeline = Append(@, Entry("tool", toolStatus))]

\* response.tool_result
ToolResultPatch(msg, toolStatus, sqlQuery, verificationInfo) ==
  [msg EXCEPT !.status = "thinking",
              !.streamingStatus = Some(toolStatus),
              !.thinkingSteps = AddStep(@, toolStatus),
              !.sqlQueries =
                 IF Truthy(sqlQuery)
                 THEN Append(@, [sql |-> sqlQuery[1],
                                 verification |-> verificationInfo])
                 ELSE @,
              !.timeline =
                 Append(@, Entry("tool", toolStatus))
                 \o (IF Truthy(sqlQuery)
                     THEN <<Entry("sql", sqlQuery[1])>> ELSE <<>>)]

\* A segment handler that continues the last buffer when there is one.
ThinkingPatch_MergesIntoLast(msg, thinkingText) ==
  [msg EXCEPT !.status = "thinking",
              !.thinkingTexts =
                 IF @ = <<>> THEN <<thinkingText>>
                 ELSE [@ EXCEPT ![Len(@)] = @ \o thinkingText],
              !.timeline = Append(@, Entry("thinking", thinkingText))]

\* response.thinking
ThinkingPatch(msg, thinkingText) ==
  [msg EXCEPT !.status = "thinking",
              !.thinkingTexts = Append(@, thinkingText),
              !.timeline = Append(@, Entry("thinking", thinkingText))]

\* A handler that opens a buffer, with its timeline entry, for every delta.
ThinkingDeltaPatch_AlwaysNewBuffer(msg, deltaText) ==
  [msg EXCEPT !.status = "thinking",
              !.thinkingTexts = Append(@, deltaText),
              !.timeline =
                 Append(@, Entry("thinking", Str("Processing thinking...")))]

\* response.thinking.delta
ThinkingDeltaPatch(msg, deltaText) ==
  LET currentThinkingTexts == msg.thinkingTexts
      lastIndex == Len(currentThinkingTexts)
  IN  IF lastIndex >= 1
      THEN [msg EXCEPT !.status = "thinking",
                       !.thinkingTexts[lastIndex] = @ \o deltaText]
      ELSE [msg EXCEPT !.status = "thinking",
                       !.thinkingTexts = <<deltaText>>,
                       !.timeline =
                          Append(@, Entry("thinking",
                                          Str("Processing thinking...")))]

\* response.chart
ChartPatch(msg, chartSpec) ==
  [msg EXCEPT !.charts =
                 Append(@, [type |-> "vega-lite", chart_spec |-> chartSpec]),
              !.timeline =
                 Append(@, Entry("chart", Str("Chart visualization added")))]

\* data.annotation || data: the nested object, or the payload's own fields
AnnotationData(data) ==
  IF data.annotation # None THEN data.annotation[1]
  ELSE [type |-> data.type, text |-> data.text, url |-> data.url,
        doc_id |-> data.doc_id, doc_title |-> data.doc_title,
        source |-> data.source,
        search_result_id |-> data.search_result_id, index |-> data.index]

\* the normalized annotation object
Annotation(data) ==
  LET annotationData == AnnotationData(data)
  IN  [type |-> OrElse(annotationData.type, Some(Str("citation"))),
       start_index |-> data.start_index,
       end_index |-> data.end_index,
       annotation_index |-> data.annotation_index,
       content_index |-> data.content_index,
       text |-> annotationData.text,
       url |-> annotationData.doc_id,
       title |-> annotationData.doc_title,
       source |-> annotationData.source,
       doc_id |-> annotationData.doc_id,
       search_result_id |-> annotationData.search_result_id,
       index |-> annotationData.index]

\* An annotation patch that puts the newest annotation first.
AnnotationPatch_NewestFirst(msg, annotation) ==
  [msg EXCEPT !.annotations = <<annotation>> \o @,
              !.timeline =
                 Append(@, Entry("annotation",
                     Str("Citation: ")
                     \o OrElse(annotation.title, Some(Str("Reference")))[1]))]

\* AnnotationsSection: annotations.map((annotation, index) => <Chip
\* label={index + 1} .../>), index counting from 0: the chips in display
\* order, each with its label.
CitationLabel(index) == index + 1
Chips(annotations) ==
  [k \in DOMAIN annotations |->
     [annotation |-> annotations[k], label |-> CitationLabel(k - 1)]]

\* response.text.annotation
AnnotationPatch(msg, annotation) ==
  [msg EXCEPT !.annotations = Append(@, annotation),
              !.timeline =
                 Append(@, Entry("annotation",
                     Str("Citation: ")
                     \o OrElse(annotation.title, Some(Str("Reference")))[1]))]

\* ------------------------------------------------- the terminal patches
\* A finalization without the fallback: the text is the accumulated text,
\* empty or not.
FinalPatch_NoFallback(msg, assistantText) ==
  [msg EXCEPT !.text = assistantText,
              !.status = "sent", !.isStreaming = Some(FALSE),
              !.streamingStatus = None]

\* "Mark message as complete"
FinalPatch(msg, assistantText) ==
  [msg EXCEPT !.text = IF assistantText # <<>> THEN assistantText
                       ELSE Str(RESPONSE_COMPLETED),
              !.status = "sent", !.isStreaming = Some(FALSE),
              !.streamingStatus = None]

\* An error patch that rolls the message back: the timeline and the step
\* list are emptied with the text.
ErrorPatch_RollsBack(msg, errorMessage) ==
  [msg EXCEPT !.text = <<>>, !.status = "error",
              !.error = Some(errorMessage),
              !.isStreaming = Some(FALSE), !.streamingStatus = None,
              !.timeline = <<>>, !.thinkingSteps = <<>>]

\* An error patch that keeps the text accumulated so far.
ErrorPatch_KeepsText(msg, errorMessage) ==
  [msg EXCEPT !.status = "error", !.error = Some(errorMessage),
              !.isStreaming = Some(FALSE), !.streamingStatus = None]

\* the catch block's patch, for the AbortError and for every other error
ErrorPatch(msg, errorMessage) ==
  [msg EXCEPT !.text = <<>>, !.status = "error",
              !.error = Some(errorMessage),
              !.isStreaming = Some(FALSE), !.streamingStatus = None]

CanceledMessage == <<ERROR_PREFIX, NLNL, USER_CANCELED>>

\* ------------------------------------------------------- stream lines
\* One line of chunk.split('\n').  kind "event": the line starts with
\* 'event: ' and name is line.slice(7).trim().  kind "data": it starts with
\* 'data: ' and raw tells what line.slice(6).trim() is: "empty" (''),
\* "done" ('[DONE]') or "json" (any other text, which JSON.parse turns
\* into payload).  kind "other": any other line (a blank line, a comment,
\* the tail of a line cut by a chunk boundary).
EventLine(name) ==
  [kind |-> "event", name |-> name, raw |-> "empty", payload |-> EmptyPayload]
DataLine(payload) ==
  [kind |-> "data", name |-> "", raw |-> "json", payload |-> payload]
EmptyDataLine ==
  [kind |-> "data", name |-> "", raw |-> "empty", payload |-> EmptyPayload]
DoneLine ==
  [kind |-> "data", name |-> "", raw |-> "done", payload |-> EmptyPayload]
OtherLine ==
  [kind |-> "other", name |-> "", raw |-> "empty", payload |-> EmptyPayload]

\* assistantText = data.text + assistantText: the delta put in front.
AppendText_Prepended(assistantText, text) == text \o assistantText

\* assistantText += data.text
AppendText(assistantText, text) == assistantText \o text

\* The loop's locals and the conversation it patches.
LoopState(messages, assistantText, currentEvent) ==
  [messages |-> messages, assistantText |-> assistantText,
   currentEvent |-> currentEvent]

\* The body of 'try { const data = JSON.parse(dataStr); ... } catch {}' for
\* one data line, on behalf of the turn whose placeholder has id id.
ProcessData(st, id, data) ==
  LET currentEvent == st.currentEvent IN
  IF data.json = "invalid" THEN st
  ELSE IF currentEvent = "response.text.delta" /\ Truthy(data.text) THEN
    LET currentText == AppendText(st.assistantText, data.text[1]) IN
    [st EXCEPT !.assistantText = currentText,
               !.messages = MapById(@, id,
                              [i \in DOMAIN @ |-> TextDeltaPatch(@[i], currentText)])]
  ELSE IF currentEvent = "response.status" /\ Truthy(data.message) THEN
    LET statusMessage == getApiStatusMessage(data.message[1]) IN
    [st EXCEPT !.messages = MapById(@, id,
                              [i \in DOMAIN @ |-> StatusPatch(@[i], statusMessage)])]
  ELSE IF currentEvent = "response.tool_result" THEN
    LET toolStatus == Str(PROCESSING_RESULTS)
        sqlQuery == extractSqlQuery(data)
        verificationInfo == extractVerificationInfo(data)
    IN [st EXCEPT !.messages = MapById(@, id,
                     [i \in DOMAIN @ |-> ToolResultPatch(@[i], toolStatus, sqlQuery,
                                                  verificationInfo)])]
  ELSE IF currentEvent = "response.thinking" /\ Truthy(data.thinking) THEN
    LET thinkingText == Trim(data.thinking[1]) IN
    IF thinkingText # <<>>
    THEN [st EXCEPT !.messages = MapById(@, id,
                       [i \in DOMAIN @ |-> ThinkingPatch(@[i], thinkingText)])]
    ELSE st
  ELSE IF currentEvent = "response.thinking.delta" /\ Truthy(data.text) THEN
    LET deltaText == data.text[1] IN
    [st EXCEPT !.messages = MapById(@, id,
                              [i \in DOMAIN @ |-> ThinkingDeltaPatch(@[i], deltaText)])]
  ELSE IF currentEvent = "response.chart" THEN
    IF data.chart_spec # None /\ JsonParse(data.chart_spec[1]) # None
    THEN LET chartSpec == JsonParse(data.chart_spec[1])[1] IN
         [st EXCEPT !.messages = MapById(@, id,
                                   [i \in DOMAIN @ |-> ChartPatch(@[i], chartSpec)])]
    ELSE st
  ELSE IF currentEvent = "response.text.annotation" THEN
    LET annotation == Annotation(data) IN
    [st EXCEPT !.messages = MapById(@, id,
                              [i \in DOMAIN @ |-> AnnotationPatch(@[i], annotation)])]
  ELSE st

\* A framer that ends the event at a line that is neither an event line
\* nor a data line, as a blank line does in the event-stream format.
ProcessLine_BlankResets(st, id, line) ==
  IF line.kind = "event" THEN [st EXCEPT !.currentEvent = line.name]
  ELSE IF line.kind = "data" THEN
    IF line.raw = "json" THEN ProcessData(st, id, line.payload) ELSE st
  ELSE [st EXCEPT !.currentEvent = ""]

\* A framer that takes the [DONE] sentinel for the end of the answer and
\* finalizes the message.
ProcessLine_DoneFinalizes(st, id, line) ==
  IF line.kind = "event" THEN [st EXCEPT !.currentEvent = line.name]
  ELSE IF line.kind = "data" THEN
    IF line.raw = "json" THEN ProcessData(st, id, line.payload)
    ELSE IF line.raw = "done"
    THEN [st EXCEPT !.messages =
            MapById(@, id, [i \in DOMAIN @ |-> FinalPatch(@[i], st.assistantText)])]
    ELSE st
  ELSE st

\* The body of 'for (const line of lines)' for one line.
ProcessLine(st, id, line) ==
  IF line.kind = "event" THEN [st EXCEPT !.currentEvent = line.name]
  ELSE IF line.kind = "data" THEN
    IF line.raw = "json" THEN ProcessData(st, id, line.payload) ELSE st
  ELSE st

\* The for loop over the lines of one chunk, in order.
RECURSIVE ProcessChunk(_, _, _)
ProcessChunk(st, id, lines) ==
  IF lines = <<>> THEN st
  ELSE ProcessChunk(ProcessLine(st, id, Head(lines)), id, Tail(lines))

\* ------------------------------------------------------------- display
\* Main: the predicate of messages.filter in visibleMessages.  A message
\* is rendered when it has reasoning text or SQL to show, a text, or, in
\* status error, an error text that is not blank.
willShowThinking(message) ==
  /\ message.sender = "assistant"
  /\ \/ \E k \in DOMAIN message.thinkingTexts :
          Trim(message.thinkingTexts[k]) # <<>>
     \/ Len(message.sqlQueries) > 0
willShowText(message) == Trim(message.text) # <<>>
willShowStatus(message) ==
  /\ message.status = "thinking"
  /\ message.isStreaming = Some(TRUE)
  /\ \/ Len(message.thinkingTexts) > 0
     \/ Len(message.sqlQueries) > 0
     \/ Trim(message.text) # <<>>
willShowError(message) ==
  /\ message.status = "error"
  /\ message.error # None
  /\ Trim(message.error[1]) # <<>>
Visible(message) ==
  \/ willShowThinking(message)
  \/ willShowText(message)
  \/ willShowStatus(message)
  \/ willShowError(message)

visibleMessages(msgs) == SelectSeq(msgs, Visible)

\* ------------------------------------------------------- byte stream
\* The bytes of a response body, in pieces: a stream is a sequence of
\* pieces of text, the network cuts it into chunks between two pieces, and
\* decoder.decode(value, { stream: true }) gives the text of a chunk.  The
\* prefixes 'event: ' and 'data: ' and the line feed are pieces of their
\* own.
RECURSIVE Concat(_)
Concat(pieces) ==
  IF pieces = <<>> THEN "" ELSE Head(pieces) \o Concat(Tail(pieces))

\* chunk.split('\n'): the pieces between the line feeds; a chunk that ends
\* with a line feed has an empty last line.
RECURSIVE SplitLines(_)
SplitLines(chunk) ==
  IF \A k \in DOMAIN chunk : chunk[k] # "\n" THEN <<chunk>>
  ELSE LET k == CHOOSE j \in DOMAIN chunk :
                  /\ chunk[j] = "\n"
                  /\ \A h \in 1..(j - 1) : chunk[h] # "\n"
       IN  <<SubSeq(chunk, 1, k - 1)>>
           \o SplitLines(SubSeq(chunk, k + 1, Len(chunk)))

\* JSON.parse(dataStr) on the text of a data line: the two records the
\* streams below are made of parse; any other text, a part of a record
\* among them, does not.
JsonParseData(dataStr) ==
  IF dataStr = "{\"text\":\"a\"}" THEN [EmptyPayload EXCEPT !.text = Some(Str("a"))]
  ELSE IF dataStr = "{\"message\":\"planning\"}"
  THEN [EmptyPayload EXCEPT !.message = Some(Str("planning"))]
  ELSE InvalidJson

\* What the loop body makes of one line of chunk.split('\n'):
\* line.startsWith('event: ') with line.slice(7).trim(),
\* line.startsWith('data: ') with line.slice(6).trim(), or neither.
FrameLine(line) ==
  IF line # <<>> /\ Head(line) = "event: "
  THEN EventLine(Concat(Trim(Tail(line))))
  ELSE IF line # <<>> /\ Head(line) = "data: "
  THEN LET dataStr == Concat(Trim(Tail(line))) IN
       IF dataStr = "" THEN EmptyDataLine
       ELSE IF dataStr = "[DONE]" THEN DoneLine
       ELSE DataLine(JsonParseData(dataStr))
  ELSE OtherLine

\* The lines of one chunk as the loop sees them.
FrameChunk(chunk) ==
  LET lines == SplitLines(chunk) IN [k \in DOMAIN lines |-> FrameLine(lines[k])]

\* ------------------------------------------------------------ failures
\* What the try block can throw: name and message of the Error, and the
\* fullMessage property the code attaches to the errors it builds itself.
Thrown(name, message, fullMessage) ==
  [name |-> name, message |-> message, fullMessage |-> fullMessage]

AbortError == Thrown("AbortError", <<"The user aborted a request.">>, None)

\* A thrown value that is not an Error ('error instanceof Error' is false):
\* it has no name, no message and no fullMessage.
NotAnError == Thrown("", <<>>, None)

\* String.prototype.includes on token sequences
IncludesText(s, needle) ==
  \E i \in 0..(Len(s) - Len(needle)) :
     SubSeq(s, i + 1, i + Len(needle)) = needle

backendUrl == "http://localhost:4000"

\* The text for a lost connection (the emoji before "Tip" is left out).
ConnectionLostMessage ==
  <<ERROR_PREFIX, NLNL, "Connection lost during streaming.", NLNL,
    "Tip: The backend server at ", backendUrl,
    " stopped or crashed, network connection was interrupted, or the backend server is no longer running.">>

\* A classification that takes every TypeError for a lost connection.
ErrorMessageOf_AnyTypeError(error) ==
  IF error.name = "TypeError" THEN ConnectionLostMessage
  ELSE IF error.name = "" THEN Str(UNKNOWN_ERROR)
  ELSE IF Truthy(error.fullMessage) THEN error.fullMessage[1]
       ELSE error.message

\* the else branch of the catch block: the text shown for a failure that is
\* not an AbortError
ErrorMessageOf(error) ==
  IF /\ error.name = "TypeError"
     /\ \/ IncludesText(error.message, <<"network">>)
        \/ IncludesText(error.message, <<"fetch">>)
        \/ IncludesText(error.message, <<"Failed", " ", "to", " ", "fetch">>)
  THEN ConnectionLostMessage
  ELSE IF error.name = "" THEN Str(UNKNOWN_ERROR)
  ELSE IF Truthy(error.fullMessage) THEN error.fullMessage[1]
       ELSE error.message

\* The catch block: the conversation after the failure error of the turn
\* whose placeholder has id id.
CatchPatch(prev, id, error) ==
  IF error.name = "AbortError"
  THEN MapById(prev, id, [i \in DOMAIN prev |-> ErrorPatch(prev[i], CanceledMessage)])
  ELSE MapById(prev, id, [i \in DOMAIN prev |-> ErrorPatch(prev[i], ErrorMessageOf(error))])

\* ----------------------------------------------------------- responses
\* A response of the backend: ok (2xx) with or without a readable body, or
\* not ok with a status line, a content type and an error body.
OkResponse(hasBody) ==
  [ok |-> TRUE, hasBody |-> hasBody, status |-> 200, statusText |-> "OK",
   jsonType |-> FALSE, body |-> [parses |-> FALSE, errorParts |-> None,
                                 error |-> None, message |-> None]]
ErrorResponse(status, statusText, jsonType, body) ==
  [ok |-> FALSE, hasBody |-> TRUE, status |-> status,
   statusText |-> statusText, jsonType |-> jsonType, body |-> body]

UnparseableBody ==
  [parses |-> FALSE, errorParts |-> None, error |-> None, message |-> None]
ErrorBody(errorParts, error, message) ==
  [parses |-> TRUE, errorParts |-> errorParts, error |-> error,
   message |-> message]

\* `${ERROR_TEXT.API_ERROR}: ${response.status} ${response.statusText}`
DefaultErrorMessage(response) ==
  <<API_ERROR, ": ", ToString(response.status), " ", response.statusText>>

\* A choice that prefers the message string to the error string.
BodyErrorMessage_MessageFirst(errorData, errorMessage) ==
  IF errorData.errorParts # None
  THEN Join(errorData.errorParts[1], NLNL)
  ELSE OrElse(errorData.message, OrElse(errorData.error, Some(errorMessage)))[1]

\* the message chosen from the parsed error body
BodyErrorMessage(errorData, errorMessage) ==
  IF errorData.errorParts # None
  THEN Join(errorData.errorParts[1], NLNL)
  ELSE OrElse(errorData.error, OrElse(errorData.message, Some(errorMessage)))[1]

\* the Error thrown for a response that is not ok
HttpError(errorMessage) == Thrown("Error", errorMessage, Some(errorMessage))

NoReaderError ==
  Thrown("Error", Str(NO_READABLE_STREAM), Some(Str(NO_READABLE_STREAM)))

\* ------------------------------------------------------------- inputs
\* Texts passed to sendMessage: empty, whitespace only, and a question with
\* and without surrounding whitespace.
Texts == { <<>>, <<" ">>, <<"h">>, <<" ", "h", " ">> }

\* The agents to select from: keys of the agent configuration, one of
\* them with a character that encodeURIComponent escapes.
FirstAgent == <<"sales">>
Agents == { FirstAgent, <<"my", " ", "agent">> }

EventNames ==
  { "response.text.delta", "response.status", "response.tool_result",
    "response.thinking", "response.thinking.delta", "response.chart",
    "response.text.annotation", "response.unknown" }

TextPayload(s) == [EmptyPayload EXCEPT !.text = Some(s)]
StatusPayload(s) == [EmptyPayload EXCEPT !.message = Some(s)]
ToolPayload(sql, verification) ==
  [EmptyPayload EXCEPT !.sql = sql, !.verification = verification]
ThinkingPayload(s) == [EmptyPayload EXCEPT !.thinking = Some(s)]
ChartPayload(chart_spec) == [EmptyPayload EXCEPT !.chart_spec = Some(chart_spec)]
CitationPayload ==
  [EmptyPayload EXCEPT
     !.annotation = Some([NoAnnotation EXCEPT
                            !.type = Some(Str("cortex_search_citation")),
                            !.doc_id = Some(Str("doc-1")),
                            !.doc_title = Some(Str("Handbook"))]),
     !.annotation_index = Some(0)]
\* An annotation that names a url next to its document identifier.
LinkPayload ==
  [EmptyPayload EXCEPT
     !.annotation = Some([NoAnnotation EXCEPT
                            !.url = Some(Str("https://example.com/a")),
                            !.doc_id = Some(Str("doc-1"))])]

Payloads ==
  { InvalidJson, EmptyPayload,
    TextPayload(Str("a")), TextPayload(Str("b")),
    StatusPayload(Str("planning")), StatusPayload(Str(PROCESSING_RESULTS)),
    ToolPayload(None, None), ToolPayload(Some(Str("SELECT 1")), None),
    ToolPayload(Some(Str("SELECT 2")), Some(Str("verified"))),
    ThinkingPayload(<<" ", "x">>), ThinkingPayload(<<" ">>),
    ChartPayload(JsonText([mark |-> "bar"])), ChartPayload(NotJsonText),
    CitationPayload, LinkPayload }

\* The lines a stream is made of.
StreamLines ==
  {EventLine(n) : n \in EventNames} \cup {DataLine(p) : p \in Payloads}
  \cup {EmptyDataLine, DoneLine, OtherLine}

\* The lines of the streams of Spec, where several turns interleave: a text
\* answer with a record that does not parse.
FewLines ==
  { EventLine("response.text.delta"), DataLine(TextPayload(Str("a"))),
    DataLine(InvalidJson) }

\* Response bodies, in pieces: a text delta whose event name and whose
\* record are two pieces each; a status update followed by a text delta
\* and the [DONE] sentinel; a text delta with spaces around the name and
\* the record.
Streams ==
  { <<"event: ", "response.text", ".delta", "\n",
      "data: ", "{\"text\":", "\"a\"}", "\n", "\n">>,
    <<"event: ", "response.status", "\n",
      "data: ", "{\"message\":\"planning\"}", "\n", "\n",
      "event: ", "response.text.delta", "\n",
      "data: ", "{\"text\":\"a\"}", "\n", "\n",
      "data: ", "[DONE]", "\n">>,
    <<"event: ", " ", "response.text.delta", " ", "\n",
      "data: ", " ", "{\"text\":\"a\"}", "\n">> }

\* Rejections of fetch and of reader.read() other than the AbortError:
\* TypeErrors, with the message of Chrome and of Safari.
NetworkErrors ==
  { Thrown("TypeError", <<"Failed", " ", "to", " ", "fetch">>, None),
    Thrown("TypeError", <<"Load", " ", "failed">>, None) }

\* Further rejections: the TypeError of a stream dropped in Chrome, and a
\* value that is not an Error.
Failures ==
  NetworkErrors
  \cup { Thrown("TypeError", <<"network", " ", "error">>, None), NotAnError }

\* Further error bodies: an error and a message string, a message string
\* alone, JSON with none of the three properties, errorParts next to an
\* error string, and an errorParts list that is empty; and the two
\* responses that are ok.
ErrorResponses ==
  { ErrorResponse(500, "Internal Server Error", FALSE, UnparseableBody),
    ErrorResponse(500, "Internal Server Error", TRUE, UnparseableBody),
    ErrorResponse(500, "Internal Server Error", TRUE,
                  ErrorBody(Some(<<Str("A"), Str("B")>>), Some(Str("E")),
                            Some(Str("M")))),
    ErrorResponse(502, "Bad Gateway", TRUE,
                  ErrorBody(None, Some(Str("E")), Some(Str("M")))),
    ErrorResponse(404, "Not Found", TRUE,
                  ErrorBody(None, None, Some(Str("M")))),
    ErrorResponse(503, "Service Unavailable", TRUE,
                  ErrorBody(None, None, None)),
    ErrorResponse(500, "Internal Server Error", TRUE,
                  ErrorBody(Some(<<>>), None, None)),
    OkResponse(TRUE), OkResponse(FALSE) }

Responses ==
  { OkResponse(TRUE), OkResponse(FALSE),
    ErrorResponse(500, "Internal Server Error", FALSE, UnparseableBody),
    ErrorResponse(500, "Internal Server Error", TRUE, UnparseableBody),
    ErrorResponse(500, "Internal Server Error", TRUE,
                  ErrorBody(Some(<<Str("A"), Str("B")>>), None, None)) }

\* -------------------------------------------------------------- state
VARIABLES
  messages,            \* useState<ChatMessage[]>
  isLoading,           \* useState(false)
  abortControllerRef,  \* useRef: 0 (null) or the turn whose controller it holds
  turns,               \* the invocations of sendMessage that were admitted
  now,                 \* Date.now()
  requests,            \* the POST requests issued so far
  selectedAgent,       \* the hook's parameter: the agent selected in Main
  turnsLeft,           \* turns sendMessage may still admit
  linesLeft            \* stream lines the network may still deliver

vars == <<messages, isLoading, abortControllerRef, turns, now, requests,
          selectedAgent, turnsLeft, linesLeft>>

NoResponse == OkResponse(FALSE)

\* An invocation of sendMessage: where it is (pc: suspended at "fetch", at
\* "json" for response.json() or at "read" for reader.read(); in the "loop"
\* over the lines of a chunk; "done" once it has returned), the instant it
\* started at, its locals, and its controller's signal.aborted.  outcome
\* is how it returned: "none" (not yet), "sent", "canceled" or "error".
\* deltas is a history of the stream, which the program does not keep: the
\* text payloads of the text-delta events read so far, in arrival order.
\* declared is another: the name on the last event line read so far.
\* stream is the response body when the network delivers it in chunks, and
\* delivered the number of its pieces that have arrived.  cleared tells
\* that clearMessages has removed the pair this turn created.
Turn(startedAt, messageId) ==
  [pc |-> "fetch", startedAt |-> startedAt, messageId |-> messageId,
   assistantText |-> <<>>, currentEvent |-> "", aborted |-> FALSE,
   response |-> NoResponse, outcome |-> "none", deltas |-> <<>>,
   declared |-> "", stream |-> <<>>, delivered |-> 0, cleared |-> FALSE]

\* A turn that has returned keeps its id and outcome, the body it was
\* answered with and whether its pair was cleared.
Returned(turn, outcome) ==
  [Turn(turn.startedAt, turn.messageId) EXCEPT !.pc = "done", !.outcome = outcome,
                                               !.stream = turn.stream,
                                               !.cleared = turn.cleared]

Init ==
  /\ messages = <<>>
  /\ isLoading = FALSE
  /\ abortControllerRef = 0
  /\ turns = <<>>
  /\ now = 1
  /\ requests = <<>>
  /\ selectedAgent = FirstAgent
  /\ turnsLeft = MaxTurns
  /\ linesLeft = MaxLines

\* ------------------------------------------------------------ actions
\* No invocation is inside its synchronous for loop: JavaScript runs the
\* loop over a chunk's lines to completion before anything else.
Idle == \A t \in DOMAIN turns : turns[t].pc # "loop"

\* encodeURIComponent, on the characters agent names are made of here: a
\* space becomes %20, letters stay.
RECURSIVE encodeURIComponent(_)
encodeURIComponent(str) ==
  IF str = <<>> THEN <<>>
  ELSE <<IF Head(str) = " " THEN "%20" ELSE Head(str)>>
       \o encodeURIComponent(Tail(str))

\* An endpoint that ignores the selection and always names the agent the
\* application started with.
Endpoint_InitialAgent(agent) ==
  <<backendUrl, "/api/agents/">> \o encodeURIComponent(FirstAgent)
    \o <<"/messages">>

\* `${config.backendUrl}/api/agents/${encodeURIComponent(agent)}/messages`
Endpoint(agent) ==
  <<backendUrl, "/api/agents/">> \o encodeURIComponent(agent)
  \o <<"/messages">>

\* The body of the request: JSON.stringify(requestBody)
RequestBody(text) ==
  [messages |-> <<[role |-> "user",
                   content |-> <<[type |-> "text", text |-> text]>>]>>,
   tool_choice |-> [type |-> "auto"], stream |-> TRUE]

\* The POST request fetch is called with.
Request(agent, text) ==
  [method |-> "POST", endpoint |-> Endpoint(agent), body |-> RequestBody(text)]

\* sendMessage up to 'await fetch(...)': the guard, the message pair, the
\* loading flag, the controller, the request.
SendMessage(message) ==
  /\ Idle
  /\ IF Trim(message) = <<>> \/ isLoading
     THEN UNCHANGED vars
     ELSE /\ turnsLeft >= 1
          /\ turnsLeft' = turnsLeft - 1
          /\ LET messageId == ToString(now) IN
             /\ messages' = AppendPair(messages, messageId, Trim(message))
             /\ turns' = Append(turns, Turn(now, messageId))
          /\ isLoading' = TRUE
          /\ abortControllerRef' = Len(turns) + 1
          /\ requests' = Append(requests,
                                Request(selectedAgent, Trim(message)))
          /\ UNCHANGED <<now, linesLeft, selectedAgent>>

\* A finally block that clears the loading flag and leaves the controller
\* in the ref.
Return_KeepsHandle(t, newMessages, outcome) ==
  /\ messages' = newMessages
  /\ turns' = [turns EXCEPT ![t] = Returned(@, outcome)]
  /\ isLoading' = FALSE
  /\ UNCHANGED <<abortControllerRef, now, requests, turnsLeft, linesLeft,
                 selectedAgent>>

\* The end of an invocation: the conversation its last patch leaves, then
\* the finally block.
Return(t, newMessages, outcome) ==
  /\ messages' = newMessages
  /\ turns' = [turns EXCEPT ![t] = Returned(@, outcome)]
  /\ isLoading' = FALSE
  /\ abortControllerRef' = 0
  /\ UNCHANGED <<now, requests, turnsLeft, linesLeft, selectedAgent>>

\* The catch block for the failure error, then the finally block.
Throw(t, error) ==
  Return(t, CatchPatch(messages, AssistantId(turns[t].messageId), error),
         IF error.name = "AbortError" THEN "canceled" ELSE "error")

\* Turn t is suspended at the await pc and its controller is not aborted.
Awaiting(t, pc) ==
  /\ Idle
  /\ t \in DOMAIN turns
  /\ turns[t].pc = pc
  /\ ~turns[t].aborted

\* 'await fetch' resolves with a response.
FetchResolve(t, response) ==
  /\ Awaiting(t, "fetch")
  /\ IF ~response.ok
     THEN IF response.jsonType
          THEN /\ turns' = [turns EXCEPT ![t].pc = "json",
                                         ![t].response = response]
               /\ UNCHANGED <<messages, isLoading, abortControllerRef, now,
                              requests, turnsLeft, linesLeft,
                 selectedAgent>>
          ELSE Throw(t, HttpError(DefaultErrorMessage(response)))
     ELSE IF ~response.hasBody
          THEN Throw(t, NoReaderError)
          ELSE /\ turns' = [turns EXCEPT ![t].pc = "read"]
               /\ UNCHANGED <<messages, isLoading, abortControllerRef, now,
                              requests, turnsLeft, linesLeft,
                 selectedAgent>>

\* 'await fetch' rejects with a network error.
FetchReject(t, error) ==
  /\ Awaiting(t, "fetch")
  /\ Throw(t, error)

\* 'await response.json()' settles: the parsed body picks the message; a
\* body that does not parse leaves the default one.
JsonSettle(t) ==
  /\ Awaiting(t, "json")
  /\ LET response == turns[t].response
         errorMessage == DefaultErrorMessage(response)
     IN  Throw(t, HttpError(IF response.body.parses
                            THEN BodyErrorMessage(response.body, errorMessage)
                            ELSE errorMessage))

\* The text payload of line when it is the record of a text-delta event (a
\* data line under the event name response.text.delta whose payload is a
\* JSON object with a text): <<text>>, and <<>> for any other line.
TextDeltaOf(currentEvent, line) ==
  IF /\ line.kind = "data" /\ line.raw = "json"
     /\ currentEvent = "response.text.delta"
     /\ line.payload.json = "value" /\ line.payload.text # None
  THEN <<line.payload.text[1]>> ELSE <<>>

\* 'await reader.read()' resolves with a chunk, or the for loop goes on to
\* the chunk's next line: one line is handled.  more tells whether the
\* chunk holds further lines (the loop continues, pc "loop") or the loop
\* ends and the next read is awaited (pc "read").  Nothing else runs while
\* a turn is inside the loop.
ReadLine(t, line, more) ==
  /\ t \in DOMAIN turns
  /\ \/ turns[t].pc = "read" /\ ~turns[t].aborted /\ Idle
     \/ turns[t].pc = "loop"
  /\ linesLeft >= 1
  /\ more => linesLeft >= 2
  /\ LET st == ProcessLine(LoopState(messages, turns[t].assistantText,
                                     turns[t].currentEvent),
                           AssistantId(turns[t].messageId), line)
     IN  /\ messages' = st.messages
         /\ turns' = [turns EXCEPT ![t].assistantText = st.assistantText,
                                   ![t].currentEvent = st.currentEvent,
                                   ![t].pc = IF more THEN "loop" ELSE "read",
                                   ![t].deltas = @ \o TextDeltaOf(turns[t].currentEvent, line),
                                   ![t].declared =
                                      IF line.kind = "event" THEN line.name
                                      ELSE @]
  /\ linesLeft' = linesLeft - 1
  /\ UNCHANGED <<isLoading, abortControllerRef, now, requests, turnsLeft,
                 selectedAgent>>

\* 'await reader.read()' resolves with done: the finalization patch.
ReadDone(t) ==
  /\ Awaiting(t, "read")
  /\ Return(t, MapById(messages, AssistantId(turns[t].messageId),
                       [i \in DOMAIN messages |-> FinalPatch(messages[i], turns[t].assistantText)]),
            "sent")

\* 'await fetch' resolves with a 2xx response whose body is stream.
FetchStream(t, stream) ==
  /\ Awaiting(t, "fetch")
  /\ turns' = [turns EXCEPT ![t].pc = "read", ![t].stream = stream]
  /\ UNCHANGED <<messages, isLoading, abortControllerRef, now, requests,
                 turnsLeft, linesLeft, selectedAgent>>

\* 'await reader.read()' resolves with a chunk of the next n pieces of the
\* body, and the for loop runs over all its lines.
ReadChunk(t, n) ==
  /\ Awaiting(t, "read")
  /\ n >= 1
  /\ turns[t].delivered + n <= Len(turns[t].stream)
  /\ LET chunk == SubSeq(turns[t].stream, turns[t].delivered + 1,
                         turns[t].delivered + n)
         st == ProcessChunk(LoopState(messages, turns[t].assistantText,
                                      turns[t].currentEvent),
                            AssistantId(turns[t].messageId), FrameChunk(chunk))
     IN  /\ messages' = st.messages
         /\ turns' = [turns EXCEPT ![t].assistantText = st.assistantText,
                                   ![t].currentEvent = st.currentEvent,
                                   ![t].delivered = @ + n]
  /\ UNCHANGED <<isLoading, abortControllerRef, now, requests, turnsLeft,
                 linesLeft, selectedAgent>>

\* 'await reader.read()' resolves with done once the whole body has
\* arrived.
StreamDone(t) ==
  /\ t \in DOMAIN turns
  /\ turns[t].delivered = Len(turns[t].stream)
  /\ ReadDone(t)

\* 'await reader.read()' rejects with a network error.
ReadReject(t, error) ==
  /\ Awaiting(t, "read")
  /\ Throw(t, error)

\* The controller was aborted while the turn awaits fetch or reader.read():
\* the await rejects with an AbortError.
AbortedAwait(t) ==
  /\ Idle
  /\ t \in DOMAIN turns
  /\ turns[t].aborted
  /\ turns[t].pc \in {"fetch", "read"}
  /\ Throw(t, AbortError)

\* The controller was aborted while the turn awaits response.json(): the
\* rejection is swallowed by the inner 'catch {}' and the default message
\* is thrown as an ordinary Error.
AbortedJson(t) ==
  /\ Idle
  /\ t \in DOMAIN turns
  /\ turns[t].aborted
  /\ turns[t].pc = "json"
  /\ Throw(t, HttpError(DefaultErrorMessage(turns[t].response)))

\* abortControllerRef.current.abort()
Abort(ts, ref) ==
  [t \in DOMAIN ts |-> IF t = ref THEN [ts[t] EXCEPT !.aborted = TRUE]
                       ELSE ts[t]]

\* A cancelRequest that also clears the loading flag.
CancelRequest_ClearsLoading ==
  /\ Idle
  /\ turns' = IF abortControllerRef # 0 /\ isLoading
              THEN Abort(turns, abortControllerRef) ELSE turns
  /\ isLoading' = FALSE
  /\ UNCHANGED <<messages, abortControllerRef, now, requests, turnsLeft,
                 linesLeft,
                 selectedAgent>>

CancelRequest ==
  /\ Idle
  /\ IF abortControllerRef # 0 /\ isLoading
     THEN /\ turns' = Abort(turns, abortControllerRef)
     ELSE /\ turns' = turns
  /\ UNCHANGED <<messages, isLoading, abortControllerRef, now, requests,
                 turnsLeft, linesLeft,
                 selectedAgent>>

\* The body of clearMessages.
Cleared ==
  /\ turns' = [t \in DOMAIN turns |->
                [(IF abortControllerRef # 0 /\ isLoading
                  THEN Abort(turns, abortControllerRef) ELSE turns)[t]
                 EXCEPT !.cleared = TRUE]]
  /\ messages' = <<>>
  /\ isLoading' = FALSE
  /\ abortControllerRef' = 0

ClearMessages ==
  /\ Idle
  /\ Cleared
  /\ UNCHANGED <<now, requests, turnsLeft, linesLeft, selectedAgent>>

\* Main: another agent is selected; the hook is rendered with it and the
\* effect on selectedAgent calls clearMessages.
SelectAgent(agent) ==
  /\ Idle
  /\ agent # selectedAgent
  /\ selectedAgent' = agent
  /\ Cleared
  /\ UNCHANGED <<now, requests, turnsLeft, linesLeft>>

\* Time passes: Date.now() returns a later value.  Only the order and the
\* equality of the values read matter, so the clock counts the instants at
\* which it was read: it moves on once the current instant has given a
\* turn its id.
Tick ==
  /\ Idle
  /\ \E t \in DOMAIN turns : turns[t].startedAt = now
  /\ now' = now + 1
  /\ UNCHANGED <<messages, isLoading, abortControllerRef, turns, requests,
                 turnsLeft, linesLeft,
                 selectedAgent>>

\* The steps of the hook and of its environment, the stream lines drawn
\* from lines.
StepWith(lines, responses, errors) ==
  \/ \E message \in Texts : SendMessage(message)
  \/ CancelRequest
  \/ ClearMessages
  \/ Tick
  \/ \E t \in 1..MaxTurns :
       \/ \E response \in responses : FetchResolve(t, response)
       \/ \E error \in errors : FetchReject(t, error)
       \/ JsonSettle(t)
       \/ \E line \in lines, more \in BOOLEAN : ReadLine(t, line, more)
       \/ ReadDone(t)
       \/ \E error \in errors : ReadReject(t, error)
       \/ AbortedAwait(t)
       \/ AbortedJson(t)

Step(lines) == StepWith(lines, Responses, NetworkErrors)

\* The hook used over several turns.
Next == Step(FewLines)
Spec == Init /\ [][Next]_vars

\* One turn from admission to its return, its stream made of any lines.
InitTurn ==
  /\ messages = <<>>
  /\ isLoading = FALSE
  /\ abortControllerRef = 0
  /\ turns = <<>>
  /\ now = 1
  /\ requests = <<>>
  /\ selectedAgent = FirstAgent
  /\ turnsLeft = 1
  /\ linesLeft = MaxTurnLines
NextTurn == Step(StreamLines)
SpecTurn == InitTurn /\ [][NextTurn]_vars

\* The hook under Main, where the selected agent changes.
InitAgents ==
  /\ messages = <<>>
  /\ isLoading = FALSE
  /\ abortControllerRef = 0
  /\ turns = <<>>
  /\ now = 1
  /\ requests = <<>>
  /\ selectedAgent = FirstAgent
  /\ turnsLeft = MaxAgentTurns
  /\ linesLeft = MaxAgentLines
NextAgents == Step(FewLines) \/ \E agent \in Agents : SelectAgent(agent)
SpecAgents == InitAgents /\ [][NextAgents]_vars

\* The hook under Main over two turns: the agent may change while a turn
\* of the agent selected before is still unwinding.
InitSwitch ==
  /\ messages = <<>>
  /\ isLoading = FALSE
  /\ abortControllerRef = 0
  /\ turns = <<>>
  /\ now = 1
  /\ requests = <<>>
  /\ selectedAgent = FirstAgent
  /\ turnsLeft = MaxSwitchTurns
  /\ linesLeft = MaxSwitchLines
NextSwitch == Step(FewLines) \/ \E agent \in Agents : SelectAgent(agent)
SpecSwitch == InitSwitch /\ [][NextSwitch]_vars

\* One turn whose response body arrives in chunks, cut anywhere between
\* two pieces.
InitChunks ==
  /\ messages = <<>>
  /\ isLoading = FALSE
  /\ abortControllerRef = 0
  /\ turns = <<>>
  /\ now = 1
  /\ requests = <<>>
  /\ selectedAgent = FirstAgent
  /\ turnsLeft = 1
  /\ linesLeft = 0
NextChunks ==
  \/ \E message \in Texts : SendMessage(message)
  \/ \E stream \in Streams : FetchStream(1, stream)
  \/ \E n \in 1..MaxChunk : ReadChunk(1, n)
  \/ StreamDone(1)
SpecChunks == InitChunks /\ [][NextChunks]_vars

\* A step of the invocation t: one of its awaits settles, or its loop
\* handles a line.
TurnStep(t) ==
  \/ \E response \in Responses : FetchResolve(t, response)
  \/ \E error \in NetworkErrors : FetchReject(t, error)
  \/ JsonSettle(t)
  \/ \E line \in FewLines, more \in BOOLEAN : ReadLine(t, line, more)
  \/ ReadDone(t)
  \/ \E error \in NetworkErrors : ReadReject(t, error)
  \/ AbortedAwait(t)
  \/ AbortedJson(t)

\* The hook with one turn, a short stream, the error bodies of
\* ErrorResponses and the rejections of Failures.
InitErrors ==
  /\ messages = <<>>
  /\ isLoading = FALSE
  /\ abortControllerRef = 0
  /\ turns = <<>>
  /\ now = 1
  /\ requests = <<>>
  /\ selectedAgent = FirstAgent
  /\ turnsLeft = MaxErrorTurns
  /\ linesLeft = MaxErrorLines
NextErrors == StepWith(FewLines, ErrorResponses, Failures)
SpecErrors == InitErrors /\ [][NextErrors]_vars

\* The hook when every request and every stream eventually completes,
\* fails or is aborted: no invocation stays suspended for ever, and the
\* loop over a chunk runs to its end.
InitFair ==
  /\ messages = <<>>
  /\ isLoading = FALSE
  /\ abortControllerRef = 0
  /\ turns = <<>>
  /\ now = 1
  /\ requests = <<>>
  /\ selectedAgent = FirstAgent
  /\ turnsLeft = MaxTurns
  /\ linesLeft = MaxFairLines
NextFair == Step(FewLines)
SpecFair ==
  InitFair /\ [][NextFair]_vars /\ \A t \in 1..MaxTurns : WF_vars(TurnStep(t))

\* The conversation after n turns, each sent at its own instant and each
\* answered by a stream that closed without text.
History(n) ==
  [i \in 1..(2 * n) |->
     IF i % 2 = 1 THEN UserMessage(ToString((i + 1) \div 2), Str("h"))
     ELSE FinalPatch(AssistantMessage(ToString(i \div 2)), <<>>)]

\* The hook late in a long conversation: one pair short of MAX_MESSAGES.
InitLong ==
  /\ messages = History((MAX_MESSAGES \div 2) - 1)
  /\ isLoading = FALSE
  /\ abortControllerRef = 0
  /\ turns = <<>>
  /\ now = MAX_MESSAGES \div 2
  /\ requests = <<>>
  /\ selectedAgent = FirstAgent
  /\ turnsLeft = MaxTurns
  /\ linesLeft = MaxLongLines
NextLong == Step(FewLines)
SpecLong == InitLong /\ [][NextLong]_vars

\* ============================================================== claims

\* A turn is in flight from its admission until its finally block has run.
TurnsInFlight == {t \in DOMAIN turns : turns[t].pc # "done"}

\* Empty or whitespace only.
Blank(message) == \A i \in DOMAIN message : message[i] = " "

\* C1: a call of sendMessage with a blank text, or made while a turn is in
\* flight, changes neither the conversation, nor the loading flag, nor the
\* cancellation handle, and issues no request.
C1_SendIsNoOpWhenBlankOrInFlight ==
  [][\A message \in Texts :
       (SendMessage(message) /\ (Blank(message) \/ TurnsInFlight # {}))
       => UNCHANGED <<messages, isLoading, abortControllerRef, requests>>]_vars

\* C2: at most one turn is in flight at any time.
C2_AtMostOneTurnInFlight == Cardinality(TurnsInFlight) <= 1

\* C3: an assistant message is created in thinking, and once its status is
\* sent or error the status never changes while the message stays in the
\* conversation (a step that neither appends nor clears keeps every message
\* at its position).
C3_StatusIsTerminal ==
  [][/\ \A i \in DOMAIN messages' :
          (i > Len(messages) /\ messages'[i].sender = "assistant")
          => messages'[i].status = "thinking"
     /\ Len(messages') = Len(messages)
        => \A i \in DOMAIN messages :
             (messages[i].sender = "assistant"
              /\ messages[i].status \in {"sent", "error"})
             => messages'[i].status = messages[i].status]_vars

\* The concatenation of the strings of ss, in order.
RECURSIVE Flatten(_)
Flatten(ss) == IF ss = <<>> THEN <<>> ELSE Head(ss) \o Flatten(Tail(ss))

\* C4 as stated: when a turn's stream closes normally, the display text of
\* its assistant message is the concatenation, in arrival order, of the
\* text payloads of the text-delta events of that stream.
C4_FinalTextIsConcatenation ==
  [][\A t \in DOMAIN turns :
       ReadDone(t)
       => \A i \in DOMAIN messages' :
            messages'[i].id = AssistantId(turns[t].messageId)
            => messages'[i].text = Flatten(turns[t].deltas)]_vars

\* C4 amended: when a turn's stream closes normally, the display text of
\* its assistant message is the concatenation, in arrival order, of the
\* text payloads of the stream's text-delta events if that is not empty,
\* and the fixed text 'Response completed' if it is empty.
C4_FinalTextIsConcatenationOrFallback ==
  [][\A t \in DOMAIN turns :
       ReadDone(t)
       => /\ \E i \in DOMAIN messages' :
               messages'[i].id = AssistantId(turns[t].messageId)
          /\ \A i \in DOMAIN messages' :
               messages'[i].id = AssistantId(turns[t].messageId)
               => messages'[i].text =
                    IF Flatten(turns[t].deltas) # <<>>
                    THEN Flatten(turns[t].deltas)
                    ELSE Str(RESPONSE_COMPLETED)]_vars

\* A turn ended sent after the deltas "a" and "b", in that order.
C4_Witness ==
  \E t \in DOMAIN turns, i \in DOMAIN messages :
    /\ turns[t].outcome = "sent"
    /\ messages[i].id = AssistantId(turns[t].messageId)
    /\ messages[i].status = "sent"
    /\ messages[i].text = <<"a", "b">>

\* C5: the conversation never holds more than MAX_MESSAGES messages, and
\* the admission of a turn drops messages only when the new pair would
\* exceed MAX_MESSAGES: then exactly the two oldest messages go, a user
\* message and the assistant message of the same turn, and in either case
\* the messages that stay keep their order and are followed by the new pair.
C5_AtMostMaxMessagesOldestPairEvicted ==
  [][/\ Len(messages') <= MAX_MESSAGES
     /\ Len(turns') > Len(turns)
        => LET dropped == Len(messages) + 2 - Len(messages')
               n == Len(messages')
           IN  /\ dropped = IF Len(messages) + 2 > MAX_MESSAGES THEN 2 ELSE 0
               /\ \A i \in 1..(Len(messages) - dropped) :
                    messages'[i] = messages[i + dropped]
               /\ dropped = 2
                  => /\ messages[1].sender = "user"
                     /\ messages[2].sender = "assistant"
                     /\ messages[1].id = UserId(messages[1].id[1])
                     /\ messages[2].id = AssistantId(messages[1].id[1])
               /\ messages'[n - 1].id = UserId(ToString(now))
               /\ messages'[n].id = AssistantId(ToString(now))]_vars

\* The oldest pair was evicted: the conversation is full and starts with
\* the pair of the second turn.
C5_Witness ==
  /\ Len(messages) = MAX_MESSAGES
  /\ messages[1].id = UserId(ToString(2))
  /\ messages[2].id = AssistantId(ToString(2))

\* The turn t returns in this step.
Returns(t) == t \in DOMAIN turns /\ turns[t].pc # "done" /\ turns'[t].pc = "done"

\* The message msg shows the cancellation: status error, not streaming, no
\* text, the header followed by the cancellation notice.
ShowsCanceled(msg) ==
  /\ msg.status = "error"
  /\ msg.isStreaming = Some(FALSE)
  /\ msg.text = <<>>
  /\ msg.error = Some(<<ERROR_PREFIX, NLNL, USER_CANCELED>>)

\* C6: a turn whose request was cancelled while it was in flight ends with
\* its assistant message in status error, streaming false, text empty, and
\* the error made of the header and the notice 'User canceled the request'.
C6_CancelEndsTurnWithCancelNotice ==
  [][\A t \in DOMAIN turns :
       (Returns(t) /\ turns[t].aborted)
       => \A i \in DOMAIN messages' :
            messages'[i].id = AssistantId(turns[t].messageId)
            => ShowsCanceled(messages'[i])]_vars

\* C7: clearMessages called while a turn is in flight cancels every such
\* turn and leaves the conversation empty and the loading flag false, and
\* an empty conversation stays empty in every step that admits no turn.
C7_ClearCancelsAndStaysEmpty ==
  [][/\ (ClearMessages /\ TurnsInFlight # {})
        => /\ \A t \in TurnsInFlight : turns'[t].aborted
           /\ messages' = <<>>
           /\ isLoading' = FALSE
     /\ (messages = <<>> /\ Len(turns') = Len(turns))
        => messages' = <<>>]_vars

\* C8: every step in which a turn returns leaves the loading flag false and
\* the handle null, and every turn in flight leads to a state where it has
\* returned, the loading flag is false and the handle is null.
C8_CleanupOnEveryExit ==
  /\ [][\A t \in DOMAIN turns :
          Returns(t) => isLoading' = FALSE /\ abortControllerRef' = 0]_vars
  /\ \A t \in 1..MaxTurns :
       (t \in TurnsInFlight)
       ~> (/\ t \in DOMAIN turns /\ turns[t].pc = "done"
           /\ ~isLoading /\ abortControllerRef = 0)

\* Two turns have returned, one with an error and one cancelled, and the
\* loading flag is false and the handle null.
C8_Witness ==
  /\ \E t \in DOMAIN turns : turns[t].outcome = "error"
  /\ \E t \in DOMAIN turns : turns[t].outcome = "canceled"
  /\ TurnsInFlight = {}
  /\ ~isLoading /\ abortControllerRef = 0

\* C9: a step in which a turn ends otherwise than by the normal close of
\* its stream leaves every message with that turn's assistant id in status
\* error, not streaming, without text and with an error, changes no other
\* message, returns (the failure is recorded as the turn's outcome, not
\* raised) and leaves the loading flag false, which is all the guard of
\* sendMessage asks for to admit the next text that is not blank.
C9_FailureWritesTerminalPatch ==
  [][\A t \in DOMAIN turns :
       (Returns(t) /\ ~ReadDone(t))
       => LET id == AssistantId(turns[t].messageId) IN
          /\ Len(messages') = Len(messages)
          /\ \A i \in DOMAIN messages :
               IF messages[i].id = id
               THEN /\ messages'[i].status = "error"
                    /\ messages'[i].isStreaming = Some(FALSE)
                    /\ messages'[i].text = <<>>
                    /\ messages'[i].error # None
               ELSE messages'[i] = messages[i]
          /\ turns'[t].outcome \in {"error", "canceled"}
          /\ ~isLoading']_vars

\* After the first turn lost its connection, its message is in error
\* without text and a second turn was admitted.
C9_Witness ==
  /\ Len(turns) = 2
  /\ turns[1].outcome = "error"
  /\ \E i \in DOMAIN messages :
       /\ messages[i].id = AssistantId(turns[1].messageId)
       /\ messages[i].status = "error"
       /\ messages[i].text = <<>>
       /\ messages[i].error = Some(ConnectionLostMessage)

\* A payload that is malformed for the event it comes under: one that does
\* not parse, a chart without a chart_spec that parses, an annotation with
\* none of an annotation's fields.
Malformed(currentEvent, payload) ==
  \/ payload.json = "invalid"
  \/ /\ currentEvent = "response.chart"
     /\ \/ payload.chart_spec = None
        \/ JsonParse(payload.chart_spec[1]) = None
  \/ /\ currentEvent = "response.text.annotation"
     /\ AnnotationData(payload) = NoAnnotation

\* C10: a malformed record changes nothing: the conversation and the
\* loop's accumulated text and current event are as before it, and the
\* turn goes on.
C10_MalformedRecordChangesNothing ==
  [][\A t \in DOMAIN turns, line \in StreamLines, more \in BOOLEAN :
       (/\ ReadLine(t, line, more)
        /\ line.kind = "data" /\ line.raw = "json"
        /\ Malformed(turns[t].currentEvent, line.payload))
       => /\ messages' = messages
          /\ turns'[t].assistantText = turns[t].assistantText
          /\ turns'[t].currentEvent = turns[t].currentEvent
          /\ turns'[t].pc # "done"]_vars

\* The sequence seq holds no value twice.
NoDuplicates(seq) ==
  \A i, j \in DOMAIN seq : i # j => seq[i] # seq[j]

\* C11: the step list of every message holds no value twice.
C11_StepListHasNoDuplicates ==
  \A i \in DOMAIN messages : NoDuplicates(messages[i].thinkingSteps)

\* The same status arrived twice, and the tool status as a status message
\* and from a tool result; each label is in the step list once.
C11_Witness ==
  \E i \in DOMAIN messages :
    /\ messages[i].thinkingSteps = <<Str(PROCESSING_RESULTS)>>
    /\ \E k \in DOMAIN messages[i].timeline :
         messages[i].timeline[k] = Entry("status", Str(PROCESSING_RESULTS))
    /\ \E k \in DOMAIN messages[i].timeline :
         messages[i].timeline[k] = Entry("tool", Str(PROCESSING_RESULTS))

\* C12: no two messages of the conversation have the same id, and no two
\* turns were given the same base id.
C12_IdsUniqueNeverReused ==
  /\ \A i, j \in DOMAIN messages :
       i # j => messages[i].id # messages[j].id
  /\ \A a, b \in DOMAIN turns :
       a # b => turns[a].messageId # turns[b].messageId

\* cancelRequest has nothing left to signal: there is no handle, or the
\* loading flag is false, or the handle's controller is aborted already.
NothingToCancel ==
  \/ abortControllerRef = 0
  \/ ~isLoading
  \/ turns[abortControllerRef].aborted

\* C13: cancelRequest changes neither the conversation, nor the loading
\* flag, nor the handle, nor the requests; the only thing it does is to
\* abort the controller of a turn that is in flight; with no turn in flight
\* it changes nothing; and it leaves a state in which a further
\* cancelRequest changes nothing.
C13_CancelOnlySignalsActiveTurn ==
  [][CancelRequest
     => /\ UNCHANGED <<messages, isLoading, abortControllerRef, requests>>
        /\ \A t \in DOMAIN turns :
             turns'[t] # turns[t]
             => /\ t \in TurnsInFlight
                /\ turns'[t] = [turns[t] EXCEPT !.aborted = TRUE]
        /\ TurnsInFlight = {} => UNCHANGED vars
        /\ NothingToCancel'
        /\ NothingToCancel => UNCHANGED vars]_vars

\* cancelRequest has signalled the turn in flight, after an earlier turn
\* had completed.
C13_Witness ==
  /\ Len(turns) = 2
  /\ turns[1].pc = "done"
  /\ turns[2].pc # "done" /\ turns[2].aborted
  /\ isLoading /\ abortControllerRef = 2

\* What a message has collected: timeline, step list, SQL list, chart list,
\* annotation list and reasoning buffers.
Collections(msg) ==
  <<msg.timeline, msg.thinkingSteps, msg.sqlQueries, msg.charts,
    msg.annotations, msg.thinkingTexts>>

\* C14: a step in which a turn ends in error leaves every message with the
\* turn's assistant id without display text and with the timeline, step
\* list, SQL list, chart list, annotation list and reasoning buffers it
\* had before the step.
C14_ErrorPatchKeepsCollections ==
  [][\A t \in DOMAIN turns :
       (Returns(t) /\ ~ReadDone(t))
       => /\ Len(messages') = Len(messages)
          /\ \A i \in DOMAIN messages :
               messages[i].id = AssistantId(turns[t].messageId)
               => /\ messages'[i].status = "error"
                  /\ messages'[i].text = <<>>
                  /\ Collections(messages'[i]) = Collections(messages[i])]_vars

\* A turn ended in error after a tool result with SQL: the message has no
\* text and still has its step, its SQL and its timeline entries.
C14_Witness ==
  \E i \in DOMAIN messages :
    /\ messages[i].status = "error"
    /\ messages[i].text = <<>>
    /\ messages[i].thinkingSteps = <<Str(PROCESSING_RESULTS)>>
    /\ Len(messages[i].sqlQueries) = 1
    /\ Len(messages[i].timeline) = 2

\* C15: a step that admits a turn issues exactly one request, a POST to
\* the endpoint of the agent selected at that moment; no other step issues
\* a request, so the requests are as many as the admitted turns; and a
\* step in which fetch or the stream fails ends the turn in error.
C15_OneRequestPerTurn ==
  /\ [](Len(requests) = Len(turns))
  /\ [][
       /\ Len(turns') > Len(turns)
          => /\ Len(requests') = Len(requests) + 1
             /\ SubSeq(requests', 1, Len(requests)) = requests
             /\ requests'[Len(requests')].method = "POST"
             /\ requests'[Len(requests')].endpoint
                  = <<backendUrl, "/api/agents/">>
                    \o encodeURIComponent(selectedAgent) \o <<"/messages">>
       /\ Len(turns') = Len(turns) => requests' = requests
       /\ \A t \in DOMAIN turns, error \in NetworkErrors :
            (FetchReject(t, error) \/ ReadReject(t, error))
            => turns'[t].pc = "done" /\ turns'[t].outcome = "error"
     ]_vars

\* A turn was admitted after another agent had been selected and its
\* stream was dropped: there is one request, to the endpoint of that agent,
\* and the turn ended in error.
C15_Witness ==
  /\ Len(turns) = 1 /\ Len(requests) = 1
  /\ turns[1].outcome = "error"
  /\ requests[1].endpoint =
       <<backendUrl, "/api/agents/", "my", "%20", "agent", "/messages">>
  /\ \E i \in DOMAIN messages :
       /\ messages[i].status = "error"
       /\ messages[i].error = Some(ConnectionLostMessage)

\* C16: a step in which the JSON body of a response that is not ok has
\* been read, and the body has errorParts p1, ..., pn, ends the turn in
\* error with the error field of its message equal to p1, "\n\n", p2, ...,
\* "\n\n", pn; parts "A", "B" give "A\n\nB".
C16_ErrorPartsJoinedByBlankLine ==
  [][\A t \in DOMAIN turns :
       (/\ JsonSettle(t)
        /\ turns[t].response.body.parses
        /\ turns[t].response.body.errorParts # None)
       => LET parts == turns[t].response.body.errorParts[1]
              joined == Flatten([k \in 1..(2 * Len(parts) - 1) |->
                                  IF k % 2 = 1 THEN parts[(k + 1) \div 2]
                                  ELSE <<"\n\n">>])
          IN  /\ turns'[t].pc = "done" /\ turns'[t].outcome = "error"
              /\ \E i \in DOMAIN messages' :
                   messages'[i].id = AssistantId(turns[t].messageId)
              /\ \A i \in DOMAIN messages' :
                   messages'[i].id = AssistantId(turns[t].messageId)
                   => /\ messages'[i].status = "error"
                      /\ messages'[i].error = Some(joined)
                      /\ parts = <<Str("A"), Str("B")>>
                         => messages'[i].error = Some(<<"A", "\n\n", "B">>)]_vars

\* A turn ended on a response 500 with the body {"errorParts":["A","B"]}:
\* its message shows A, a blank line, B.
C16_Witness ==
  \E t \in DOMAIN turns, i \in DOMAIN messages :
    /\ turns[t].pc = "done" /\ turns[t].outcome = "error"
    /\ messages[i].id = AssistantId(turns[t].messageId)
    /\ messages[i].status = "error"
    /\ messages[i].error = Some(<<"A", "\n\n", "B">>)

\* The data line is a record of a chart event with a chart_spec.
ChartRecord(currentEvent, line) ==
  /\ currentEvent = "response.chart"
  /\ line.kind = "data" /\ line.raw = "json"
  /\ line.payload.json = "value"
  /\ line.payload.chart_spec # None

\* C17: a step that handles a chart record whose chart_spec is JSON text
\* appends to the turn's message one chart record holding the decoded
\* value and one timeline entry of type chart, and changes nothing else of
\* the conversation; a step that handles a chart record whose chart_spec
\* does not parse leaves the conversation as it is; in both cases the turn
\* goes on reading its stream.
C17_ChartAppendedOnlyWhenSpecParses ==
  [][\A t \in DOMAIN turns, line \in StreamLines, more \in BOOLEAN :
       (ChartRecord(turns[t].currentEvent, line) /\ ReadLine(t, line, more))
       => LET chart_spec == line.payload.chart_spec[1]
              id == AssistantId(turns[t].messageId)
          IN  /\ turns'[t].pc \in {"loop", "read"}
              /\ turns'[t].outcome = "none"
              /\ isLoading' = isLoading
              /\ IF chart_spec.enc = "json"
                 THEN /\ Len(messages') = Len(messages)
                      /\ \E i \in DOMAIN messages : messages[i].id = id
                      /\ \A i \in DOMAIN messages :
                           IF messages[i].id = id
                           THEN /\ messages'[i] =
                                     [messages[i] EXCEPT
                                        !.charts = messages'[i].charts,
                                        !.timeline = messages'[i].timeline]
                                /\ messages'[i].charts =
                                     Append(messages[i].charts,
                                            [type |-> "vega-lite",
                                             chart_spec |-> chart_spec.val])
                                /\ Len(messages'[i].timeline) =
                                     Len(messages[i].timeline) + 1
                                /\ SubSeq(messages'[i].timeline, 1,
                                          Len(messages[i].timeline)) =
                                     messages[i].timeline
                                /\ messages'[i].timeline[
                                       Len(messages'[i].timeline)].type = "chart"
                           ELSE messages'[i] = messages[i]
                 ELSE messages' = messages]_vars

\* A chart record with a spec that does not parse and one with the spec
\* {"mark":"bar"} were handled: the message has one chart, with the decoded
\* spec, and one timeline entry, of type chart.
C17_Witness ==
  \E t \in DOMAIN turns, i \in DOMAIN messages :
    /\ turns[t].currentEvent = "response.chart"
    /\ linesLeft = MaxTurnLines - 3
    /\ messages[i].id = AssistantId(turns[t].messageId)
    /\ messages[i].charts =
         <<[type |-> "vega-lite", chart_spec |-> [mark |-> "bar"]]>>
    /\ Len(messages[i].timeline) = 1
    /\ messages[i].timeline[1].type = "chart"

\* The data line is a record of a reasoning-delta event with a text.
ThinkingDelta(currentEvent, line) ==
  /\ currentEvent = "response.thinking.delta"
  /\ line.kind = "data" /\ line.raw = "json"
  /\ line.payload.json = "value"
  /\ line.payload.text # None /\ line.payload.text[1] # <<>>

\* C18: a step that handles a reasoning delta with text d changes the
\* reasoning buffers of the turn's message in one of two ways.  When the
\* message has buffers, the last one becomes its previous content followed
\* by d, the others and the timeline stay as they are.  When it has none,
\* it gets the single buffer d and its timeline gets one more entry, of
\* type thinking with the placeholder content.
C18_ThinkingDeltaExtendsLastBuffer ==
  [][\A t \in DOMAIN turns, line \in StreamLines, more \in BOOLEAN :
       (ThinkingDelta(turns[t].currentEvent, line) /\ ReadLine(t, line, more))
       => LET d == line.payload.text[1]
              id == AssistantId(turns[t].messageId)
          IN  /\ Len(messages') = Len(messages)
              /\ \E i \in DOMAIN messages : messages[i].id = id
              /\ \A i \in DOMAIN messages :
                   LET old == messages[i].thinkingTexts
                       new == messages'[i].thinkingTexts
                       n == Len(old)
                   IN  IF messages[i].id # id THEN messages'[i] = messages[i]
                       ELSE IF n >= 1
                       THEN /\ Len(new) = n
                            /\ \A k \in 1..(n - 1) : new[k] = old[k]
                            /\ new[n] = old[n] \o d
                            /\ messages'[i].timeline = messages[i].timeline
                       ELSE /\ new = <<d>>
                            /\ messages'[i].timeline =
                                 Append(messages[i].timeline,
                                        [type |-> "thinking",
                                         content |-> <<"Processing thinking...">>])
     ]_vars

\* Two reasoning deltas, a then b, were handled on a message without
\* buffers: it has the one buffer ab and the one placeholder entry.
C18_Witness ==
  \E i \in DOMAIN messages :
    /\ messages[i].thinkingTexts = << <<"a", "b">> >>
    /\ Len(messages[i].timeline) = 1
    /\ messages[i].timeline[1].type = "thinking"

\* C19: the current event name of a turn that has not returned is the
\* name on the last event line read from its stream (the empty name when
\* there was none); a turn starts with the empty name; the name changes
\* only in a step that reads an event line of that stream; and a step
\* that reads a data line changes the conversation as the handler of that
\* last declared name does, whether the line ends its chunk or not.
C19_DataAttributedToLastDeclaredEvent ==
  /\ [](\A t \in DOMAIN turns : turns[t].currentEvent = turns[t].declared)
  /\ [][
       /\ Len(turns') > Len(turns)
          => turns'[Len(turns')].currentEvent = ""
       /\ \A t \in DOMAIN turns :
            (turns'[t].pc # "done"
             /\ turns'[t].currentEvent # turns[t].currentEvent)
            => \E name \in EventNames, more \in BOOLEAN :
                 /\ ReadLine(t, EventLine(name), more)
                 /\ turns'[t].currentEvent = name
       /\ \A t \in DOMAIN turns, line \in StreamLines, more \in BOOLEAN :
            (line.kind = "data" /\ ReadLine(t, line, more))
            => /\ turns'[t].currentEvent = turns[t].currentEvent
               /\ messages' =
                    IF line.raw = "json"
                    THEN ProcessData(LoopState(messages,
                                               turns[t].assistantText,
                                               turns[t].declared),
                                     AssistantId(turns[t].messageId),
                                     line.payload).messages
                    ELSE messages
     ]_vars

\* Three lines were read, a status event line and two status records, the
\* second at the end of its chunk: both records became steps, the second
\* with a data line between it and its event line.
C19_Witness ==
  \E t \in DOMAIN turns, i \in DOMAIN messages :
    /\ turns[t].pc = "read"
    /\ turns[t].declared = "response.status"
    /\ linesLeft = MaxTurnLines - 3
    /\ messages[i].id = AssistantId(turns[t].messageId)
    /\ messages[i].thinkingSteps = <<Str("planning"), Str(PROCESSING_RESULTS)>>

\* The event names the handler has a branch for.
RecognizedEvents ==
  { "response.text.delta", "response.status", "response.tool_result",
    "response.thinking", "response.thinking.delta", "response.chart",
    "response.text.annotation" }

\* The data line has no payload, or the payload [DONE], or arrives under an
\* event name without a branch, the empty name of a stream that has
\* declared none included.
Ignored(currentEvent, line) ==
  /\ line.kind = "data"
  /\ \/ line.raw \in {"empty", "done"}
     \/ currentEvent \notin RecognizedEvents

\* C20: a step that handles a data line with an empty payload, with the
\* payload [DONE], or under an event name that is not one of the seven
\* with a branch, leaves the conversation, the loading flag and the turn's
\* locals as they are; the turn's message is still in thinking and the
\* turn goes on reading its stream.
C20_IgnoredDataLineChangesNothing ==
  [][\A t \in DOMAIN turns, line \in StreamLines, more \in BOOLEAN :
       (Ignored(turns[t].currentEvent, line) /\ ReadLine(t, line, more))
       => /\ messages' = messages
          /\ isLoading' = isLoading
          /\ abortControllerRef' = abortControllerRef
          /\ turns'[t].assistantText = turns[t].assistantText
          /\ turns'[t].currentEvent = turns[t].currentEvent
          /\ turns'[t].pc \in {"loop", "read"}
          /\ turns'[t].outcome = "none"
          /\ \A i \in DOMAIN messages' :
               messages'[i].id = AssistantId(turns[t].messageId)
               => messages'[i].status = "thinking"]_vars

\* A stream declared an event name without a branch and two more lines
\* were read: the placeholder is as it was created, in thinking, and the
\* turn awaits the next chunk.
C20_Witness ==
  \E t \in DOMAIN turns, i \in DOMAIN messages :
    /\ turns[t].pc = "read"
    /\ turns[t].declared = "response.unknown"
    /\ linesLeft = MaxTurnLines - 3
    /\ isLoading
    /\ messages[i] = AssistantMessage(turns[t].messageId)

\* C21: cancelRequest and the passing of time leave the conversation as it
\* is, and a step of a turn (a stream line, the finalization, an error or
\* cancel patch) keeps the number and the order of the messages and
\* changes at most one of them, an assistant message with the id of that
\* turn; a step that admits a turn keeps the messages that stay in the
\* conversation as they were and in their order.
C21_PatchesTouchOnlyOwnMessage ==
  [][/\ (CancelRequest \/ Tick) => messages' = messages
     /\ \A t \in DOMAIN turns :
          TurnStep(t)
          => /\ Len(messages') = Len(messages)
             /\ \A i \in DOMAIN messages :
                  messages'[i] # messages[i]
                  => /\ messages[i].id = AssistantId(turns[t].messageId)
                     /\ messages'[i].id = messages[i].id
                     /\ messages[i].sender = "assistant"
                     /\ \A j \in DOMAIN messages :
                          messages'[j] # messages[j] => j = i
     /\ Len(turns') > Len(turns)
        => \E k \in 0..Len(messages) :
             SubSeq(messages', 1, Len(messages) - k)
               = SubSeq(messages, k + 1, Len(messages))]_vars

\* seq is pre followed by zero or more elements.
IsPrefix(pre, seq) ==
  Len(pre) <= Len(seq) /\ SubSeq(seq, 1, Len(pre)) = pre

\* The types of the timeline entries the handler of an event name writes.
EntryTypes(currentEvent) ==
  CASE currentEvent = "response.status" -> {"status"}
    [] currentEvent = "response.tool_result" -> {"tool", "sql"}
    [] currentEvent \in {"response.thinking", "response.thinking.delta"}
         -> {"thinking"}
    [] currentEvent = "response.chart" -> {"chart"}
    [] currentEvent = "response.text.annotation" -> {"annotation"}
    [] OTHER -> {}

\* C22: in every step, the timeline of a message that stays at its
\* position is a prefix of its timeline after the step; a step that does
\* not handle a stream line (the finalization and the error patches
\* included) leaves it as it is; and the entries a step adds are those of
\* the line handled in that step, of the types its event name writes, so
\* the entries stand in the order in which their lines arrived.
C22_TimelineAppendOnlyInArrivalOrder ==
  [][/\ \A i \in DOMAIN messages :
          (i \in DOMAIN messages' /\ messages'[i].id = messages[i].id)
          => IsPrefix(messages[i].timeline, messages'[i].timeline)
     /\ \A t \in DOMAIN turns :
          (turns'[t].pc = "done" /\ turns[t].pc # "done")
          => /\ Len(messages') = Len(messages)
             /\ \A i \in DOMAIN messages :
                  messages'[i].timeline = messages[i].timeline
     /\ \A t \in DOMAIN turns, line \in StreamLines, more \in BOOLEAN :
          (/\ Len(messages') = Len(messages)
           /\ \E i \in DOMAIN messages :
                messages'[i].timeline # messages[i].timeline
           /\ ReadLine(t, line, more))
          => /\ line.kind = "data"
             /\ \A i \in DOMAIN messages :
                  \A k \in (Len(messages[i].timeline) + 1)
                            ..Len(messages'[i].timeline) :
                    messages'[i].timeline[k].type
                      \in EntryTypes(turns[t].currentEvent)]_vars

\* A stream with a status record and then a chart record closed normally:
\* the message is sent and its timeline holds the status entry and then
\* the chart entry.
C22_Witness ==
  \E i \in DOMAIN messages :
    /\ messages[i].status = "sent"
    /\ Len(messages[i].timeline) = 2
    /\ messages[i].timeline[1].type = "status"
    /\ messages[i].timeline[2].type = "chart"

\* C23: a message in status sent has display text; and the step in which
\* a stream closes normally leaves the turn's message in status sent, not
\* streaming, without status label, with the text the stream's text
\* deltas add up to or, when they add up to nothing, 'Response completed',
\* and with the collections it had before the step.
C23_FinalizationPatch ==
  /\ [](\A i \in DOMAIN messages :
          messages[i].status = "sent" => messages[i].text # <<>>)
  /\ [][\A t \in DOMAIN turns :
          ReadDone(t)
          => /\ Len(messages') = Len(messages)
             /\ turns'[t].outcome = "sent"
             /\ \A i \in DOMAIN messages :
                  IF messages[i].id = AssistantId(turns[t].messageId)
                  THEN /\ messages'[i].status = "sent"
                       /\ messages'[i].isStreaming = <<FALSE>>
                       /\ messages'[i].streamingStatus = <<>>
                       /\ messages'[i].text =
                            IF Flatten(turns[t].deltas) = <<>>
                            THEN <<"Response completed">>
                            ELSE Flatten(turns[t].deltas)
                       /\ Collections(messages'[i]) = Collections(messages[i])
                       /\ messages'[i].error = messages[i].error
                  ELSE messages'[i] = messages[i]]_vars

\* A stream with a status record and no text closed normally: the message
\* is sent, shows 'Response completed', has no status label and still has
\* its step and its timeline entry.
C23_Witness ==
  \E i \in DOMAIN messages :
    /\ messages[i].status = "sent"
    /\ messages[i].text = <<"Response completed">>
    /\ messages[i].streamingStatus = <<>>
    /\ messages[i].isStreaming = <<FALSE>>
    /\ messages[i].thinkingSteps = <<Str("planning")>>
    /\ Len(messages[i].timeline) = 1

\* The data line is a record of a reasoning-segment event with a text.
ThinkingSegment(currentEvent, line) ==
  /\ currentEvent = "response.thinking"
  /\ line.kind = "data" /\ line.raw = "json"
  /\ line.payload.json = "value"
  /\ line.payload.thinking # None /\ line.payload.thinking[1] # <<>>

\* C24: in every step, the reasoning buffers of a message that stays at
\* its position keep their number or get one more, every buffer but the
\* last one is as it was, and the last one, when no buffer was added, is
\* its old content possibly followed by more; a step that handles a
\* reasoning segment whose trimmed text is not empty adds that text as a
\* new last buffer and one timeline entry of type thinking with it; one
\* whose trimmed text is empty leaves the conversation as it is.
C24_BuffersChangeOnlyAtLastPosition ==
  [][/\ \A i \in DOMAIN messages :
          (i \in DOMAIN messages' /\ messages'[i].id = messages[i].id)
          => LET old == messages[i].thinkingTexts
                 new == messages'[i].thinkingTexts
             IN  /\ Len(new) \in {Len(old), Len(old) + 1}
                 /\ \A k \in 1..(Len(old) - 1) : new[k] = old[k]
                 /\ Len(old) >= 1
                    => IF Len(new) = Len(old)
                       THEN IsPrefix(old[Len(old)], new[Len(old)])
                       ELSE new[Len(old)] = old[Len(old)]
     /\ \A t \in DOMAIN turns, line \in StreamLines, more \in BOOLEAN :
          (ThinkingSegment(turns[t].currentEvent, line)
           /\ ReadLine(t, line, more))
          => LET thinkingText == Trim(line.payload.thinking[1])
                 id == AssistantId(turns[t].messageId)
             IN  IF thinkingText = <<>> THEN messages' = messages
                 ELSE /\ Len(messages') = Len(messages)
                      /\ \E i \in DOMAIN messages : messages[i].id = id
                      /\ \A i \in DOMAIN messages :
                           messages[i].id = id
                           => /\ messages'[i].thinkingTexts =
                                   Append(messages[i].thinkingTexts,
                                          thinkingText)
                              /\ messages'[i].timeline =
                                   Append(messages[i].timeline,
                                          [type |-> "thinking",
                                           content |-> thinkingText])]_vars

\* Two reasoning segments x and then a delta a were handled: the message
\* has the buffers x and xa, the delta went to the buffer pushed last.
C24_Witness ==
  \E i \in DOMAIN messages :
    /\ messages[i].thinkingTexts = << <<"x">>, <<"x", "a">> >>
    /\ Len(messages[i].timeline) = 2

\* The data line is a record of a tool-result event.
ToolResult(currentEvent, line) ==
  /\ currentEvent = "response.tool_result"
  /\ line.kind = "data" /\ line.raw = "json"
  /\ line.payload.json = "value"

\* The number of entries of a type in a timeline.
CountType(timeline, type) ==
  Cardinality({k \in DOMAIN timeline : timeline[k].type = type})

\* C25: every message has as many timeline entries of type sql as SQL
\* records; and a step that handles a tool result adds to the turn's
\* message one entry of type tool, followed by one entry of type sql with
\* the statement exactly when the extraction gives a statement, adds the
\* record of statement and verification in that case and no record
\* otherwise, and adds 'Processing results...' to the step list unless it
\* is there.
C25_ToolResultEntries ==
  /\ [](\A i \in DOMAIN messages :
          CountType(messages[i].timeline, "sql") = Len(messages[i].sqlQueries))
  /\ [][\A t \in DOMAIN turns, line \in StreamLines, more \in BOOLEAN :
          (ToolResult(turns[t].currentEvent, line) /\ ReadLine(t, line, more))
          => LET sql == line.payload.sql
                 hasSql == sql # <<>> /\ sql[1] # <<>>
                 label == <<"Processing results...">>
                 id == AssistantId(turns[t].messageId)
             IN  /\ Len(messages') = Len(messages)
                 /\ \E i \in DOMAIN messages : messages[i].id = id
                 /\ \A i \in DOMAIN messages :
                      messages[i].id = id
                      => /\ messages'[i].timeline =
                              messages[i].timeline
                              \o <<[type |-> "tool", content |-> label]>>
                              \o (IF hasSql
                                  THEN <<[type |-> "sql", content |-> sql[1]]>>
                                  ELSE <<>>)
                         /\ messages'[i].sqlQueries =
                              IF hasSql
                              THEN Append(messages[i].sqlQueries,
                                          [sql |-> sql[1],
                                           verification |->
                                             line.payload.verification])
                              ELSE messages[i].sqlQueries
                         /\ messages'[i].thinkingSteps =
                              IF \E k \in DOMAIN messages[i].thinkingSteps :
                                   messages[i].thinkingSteps[k] = label
                              THEN messages[i].thinkingSteps
                              ELSE Append(messages[i].thinkingSteps, label)]_vars

\* Three tool results were handled, without SQL, with SQL and a
\* verification, and with SQL: three tool entries and two sql entries, two
\* SQL records, one step.
C25_Witness ==
  \E i \in DOMAIN messages :
    /\ CountType(messages[i].timeline, "tool") = 3
    /\ CountType(messages[i].timeline, "sql") = 2
    /\ Len(messages[i].sqlQueries) = 2
    /\ messages[i].sqlQueries[1].verification = <<Str("verified")>>
    /\ messages[i].timeline[3].type = "sql"
    /\ messages[i].thinkingSteps = <<Str(PROCESSING_RESULTS)>>

\* The data line is a record of a status event with a status message.
StatusUpdate(currentEvent, line) ==
  /\ currentEvent = "response.status"
  /\ line.kind = "data" /\ line.raw = "json"
  /\ line.payload.json = "value"
  /\ line.payload.message # <<>> /\ line.payload.message[1] # <<>>

\* C26: a step that handles a status record with the message m adds to
\* the turn's message exactly one timeline entry, of type status with m,
\* and makes m the status label, whether m is in the step list or not; it
\* appends m to the step list when m is not in it and leaves the list as
\* it is otherwise.  No other step changes the number of status entries of
\* a message that stays in the conversation.
C26_StatusEntryPerEventStepPerLabel ==
  [][/\ \A t \in DOMAIN turns, line \in StreamLines, more \in BOOLEAN :
          (StatusUpdate(turns[t].currentEvent, line)
           /\ ReadLine(t, line, more))
          => LET m == line.payload.message[1]
                 id == AssistantId(turns[t].messageId)
             IN  /\ Len(messages') = Len(messages)
                 /\ \E i \in DOMAIN messages : messages[i].id = id
                 /\ \A i \in DOMAIN messages :
                      messages[i].id = id
                      => /\ messages'[i].timeline =
                              Append(messages[i].timeline,
                                     [type |-> "status", content |-> m])
                         /\ messages'[i].streamingStatus = <<m>>
                         /\ messages'[i].thinkingSteps =
                              IF \E k \in DOMAIN messages[i].thinkingSteps :
                                   messages[i].thinkingSteps[k] = m
                              THEN messages[i].thinkingSteps
                              ELSE Append(messages[i].thinkingSteps, m)
     /\ (/\ Len(messages') = Len(messages)
         /\ \E i \in DOMAIN messages :
              CountType(messages'[i].timeline, "status")
                # CountType(messages[i].timeline, "status"))
        => \E t \in DOMAIN turns, line \in StreamLines, more \in BOOLEAN :
             /\ StatusUpdate(turns[t].currentEvent, line)
             /\ ReadLine(t, line, more)]_vars

\* Three status records were handled, planning, 'Processing results...'
\* and planning again: three status entries, two steps in the order of
\* their first arrival, the label of the last record.
C26_Witness ==
  \E i \in DOMAIN messages :
    /\ CountType(messages[i].timeline, "status") = 3
    /\ messages[i].thinkingSteps = <<Str("planning"), Str(PROCESSING_RESULTS)>>
    /\ messages[i].streamingStatus = <<Str("planning")>>

\* The data line is a record of an annotation event.
AnnotationRecord(currentEvent, line) ==
  /\ currentEvent = "response.text.annotation"
  /\ line.kind = "data" /\ line.raw = "json"
  /\ line.payload.json = "value"

\* C27: a step that handles an annotation record appends to the turn's
\* message an annotation whose url is the url of the payload when it has
\* one and its document identifier otherwise, and whose type is the type
\* of the payload or 'citation' when it has none, and a timeline entry of
\* type annotation labelled 'Citation: ' with the title, or with
\* 'Reference' when there is no title.
C27_AnnotationNormalized ==
  [][\A t \in DOMAIN turns, line \in StreamLines, more \in BOOLEAN :
       (AnnotationRecord(turns[t].currentEvent, line)
        /\ ReadLine(t, line, more))
       => LET a == AnnotationData(line.payload)
              id == AssistantId(turns[t].messageId)
          IN  \A i \in DOMAIN messages :
                messages[i].id = id
                => LET n == Len(messages'[i].annotations)
                       stored == messages'[i].annotations[n]
                       entry == messages'[i].timeline[
                                   Len(messages'[i].timeline)]
                   IN  /\ n = Len(messages[i].annotations) + 1
                       /\ stored.url =
                            IF Truthy(a.url) THEN a.url ELSE a.doc_id
                       /\ stored.type =
                            IF Truthy(a.type) THEN a.type
                            ELSE <<Str("citation")>>
                       /\ entry.type = "annotation"
                       /\ entry.content =
                            IF Truthy(a.doc_title)
                            THEN <<"Citation: ">> \o a.doc_title[1]
                            ELSE <<"Citation: ", "Reference">>]_vars

\* C28: in every step the annotation list of a message that stays at its
\* position is a prefix of its list after the step; a step that handles
\* an annotation record adds exactly one annotation, at the end, the one
\* of that record; and the chips shown for a list are its annotations in
\* list order, the k-th with the number k.
C28_AnnotationsInArrivalOrder ==
  /\ [](\A i \in DOMAIN messages :
          LET chips == Chips(messages[i].annotations)
          IN  /\ Len(chips) = Len(messages[i].annotations)
              /\ \A k \in DOMAIN chips :
                   /\ chips[k].annotation = messages[i].annotations[k]
                   /\ chips[k].label = k)
  /\ [][/\ \A i \in DOMAIN messages :
             (i \in DOMAIN messages' /\ messages'[i].id = messages[i].id)
             => IsPrefix(messages[i].annotations, messages'[i].annotations)
        /\ \A t \in DOMAIN turns, line \in StreamLines, more \in BOOLEAN :
             (AnnotationRecord(turns[t].currentEvent, line)
              /\ ReadLine(t, line, more))
             => /\ Len(messages') = Len(messages)
                /\ \E i \in DOMAIN messages :
                     messages[i].id = AssistantId(turns[t].messageId)
                /\ \A i \in DOMAIN messages :
                     messages[i].id = AssistantId(turns[t].messageId)
                     => LET old == messages[i].annotations
                            new == messages'[i].annotations
                        IN  /\ Len(new) = Len(old) + 1
                            /\ SubSeq(new, 1, Len(old)) = old
                            /\ new[Len(new)].doc_id =
                                 AnnotationData(line.payload).doc_id
                            /\ new[Len(new)].title =
                                 AnnotationData(line.payload).doc_title]_vars

\* Two annotation records were handled, the citation of the Handbook and
\* then the one with a url: the list holds them in that order and they
\* are shown with the numbers 1 and 2.
C28_Witness ==
  \E i \in DOMAIN messages :
    /\ Len(messages[i].annotations) = 2
    /\ messages[i].annotations[1].title = <<Str("Handbook")>>
    /\ messages[i].annotations[2].title = <<>>
    /\ messages[i].annotations[2].doc_id = <<Str("doc-1")>>
    /\ Chips(messages[i].annotations)[2].label = 2

\* The error text the rules give for a response that is not ok: the
\* errorParts joined by blank lines, else the error string, else the
\* message string of a body of content type JSON that parses, else
\* 'API Error: <status> <statusText>'.
ExpectedErrorText(response) ==
  LET body == response.body
      generic == <<"API Error", ": ", ToString(response.status), " ",
                   response.statusText>>
  IN  IF ~(response.jsonType /\ body.parses) THEN generic
      ELSE IF body.errorParts # <<>>
      THEN LET parts == body.errorParts[1]
           IN  Flatten([k \in 1..(2 * Len(parts) - 1) |->
                          IF k % 2 = 1 THEN parts[(k + 1) \div 2]
                          ELSE <<"\n\n">>])
      ELSE IF body.error # <<>> /\ body.error[1] # <<>> THEN body.error[1]
      ELSE IF body.message # <<>> /\ body.message[1] # <<>>
      THEN body.message[1]
      ELSE generic

\* C29: the step in which a turn learns the outcome of a response that
\* is not ok (the response arrives without JSON content type, or its JSON
\* body has been read or has failed to parse) ends the turn in error with
\* the error text of the first rule that applies: errorParts joined by
\* blank lines, the error string, the message string, the generic text.
\* The text is in the error field of the turn's message, if that is still
\* in the conversation.
C29_ErrorTextByFirstRule ==
  [][\A t \in DOMAIN turns :
       /\ \A response \in ErrorResponses :
            (~response.ok /\ ~response.jsonType /\ FetchResolve(t, response))
            => /\ turns'[t].outcome = "error"
               /\ \A i \in DOMAIN messages' :
                    messages'[i].id = AssistantId(turns[t].messageId)
                    => messages'[i].error = <<ExpectedErrorText(response)>>
       /\ JsonSettle(t)
          => /\ turns'[t].outcome = "error"
             /\ \A i \in DOMAIN messages' :
                  messages'[i].id = AssistantId(turns[t].messageId)
                  => /\ messages'[i].status = "error"
                     /\ messages'[i].error =
                          <<ExpectedErrorText(turns[t].response)>>]_vars

\* A turn ended on a response whose body has an error string and a
\* message string and no errorParts: its message shows the error string.
C29_Witness ==
  \E t \in DOMAIN turns, i \in DOMAIN messages :
    /\ turns[t].outcome = "error"
    /\ messages[i].id = AssistantId(turns[t].messageId)
    /\ messages[i].status = "error"
    /\ messages[i].error = << <<"E">> >>

\* The text the classification gives for a thrown value: the cancel notice
\* for an AbortError; the connection-lost text for a TypeError whose
\* message has 'network' or 'fetch' in it; for any other Error its
\* fullMessage, or its message when it has none; 'Unknown error' for a
\* value that is not an Error.
Classified(error) ==
  IF error.name = "AbortError"
  THEN <<"PAWS right there! We have hit a snag :(", "\n\n",
         "User canceled the request">>
  ELSE IF /\ error.name = "TypeError"
          /\ \E k \in DOMAIN error.message :
               error.message[k] \in {"network", "fetch"}
  THEN ConnectionLostMessage
  ELSE IF error.name = "" THEN <<"Unknown error">>
  ELSE IF error.fullMessage # <<>> /\ error.fullMessage[1] # <<>>
  THEN error.fullMessage[1]
  ELSE error.message

\* After the step the turn has ended in error and its message, if still
\* in the conversation, is in status error with this error text.
EndsWith(t, errorMessage) ==
  /\ turns'[t].pc = "done"
  /\ turns'[t].outcome \in {"error", "canceled"}
  /\ \A i \in DOMAIN messages' :
       messages'[i].id = AssistantId(turns[t].messageId)
       => /\ messages'[i].status = "error"
          /\ messages'[i].error = <<errorMessage>>

\* C30: a step in which a turn fails shows the text of the first
\* classification that applies to what was thrown: a rejection of fetch
\* or of a read with the value e shows Classified(e), the delivery of an
\* abort shows the cancel notice, a response that is ok and has no body
\* shows 'No readable stream available'; and the connection-lost text
\* names the backend address.
C30_FailureClassifiedInOrder ==
  [][\A t \in DOMAIN turns :
       /\ \A error \in Failures :
            (FetchReject(t, error) \/ ReadReject(t, error))
            => EndsWith(t, Classified(error))
       /\ AbortedAwait(t) => EndsWith(t, Classified(AbortError))
       /\ \A response \in ErrorResponses :
            (response.ok /\ ~response.hasBody /\ FetchResolve(t, response))
            => EndsWith(t, <<"No readable stream available">>)
       /\ \E k \in DOMAIN ConnectionLostMessage :
            ConnectionLostMessage[k] = "http://localhost:4000"]_vars

\* A turn ended on a rejection with a value that is not an Error: its
\* message shows 'Unknown error'.
C30_Witness ==
  \E t \in DOMAIN turns, i \in DOMAIN messages :
    /\ turns[t].outcome = "error"
    /\ messages[i].id = AssistantId(turns[t].messageId)
    /\ messages[i].status = "error"
    /\ messages[i].error = << <<"Unknown error">> >>

\* C31: the conversation is a sequence of pairs: its length is even, and
\* every message at an odd position (counting from 1) is a user message
\* with id base + '_user', followed by the assistant message with id
\* base + '_assistant' for the same base.
C31_ConversationIsPairs ==
  /\ Len(messages) % 2 = 0
  /\ \A i \in DOMAIN messages :
       i % 2 = 1
       => /\ messages[i].sender = "user"
          /\ messages[i].id = <<messages[i].id[1], "_user">>
          /\ messages[i + 1].sender = "assistant"
          /\ messages[i + 1].id = <<messages[i].id[1], "_assistant">>

\* An eviction has happened: the conversation is full, the pair at its
\* front is no longer the one it began with, and the pair at its end is
\* in thinking or answered.
C31_Witness ==
  /\ Len(messages) = MAX_MESSAGES
  /\ messages[1].sender = "user"
  /\ messages[1].id[1] # "1"
  /\ messages[MAX_MESSAGES].sender = "assistant"
  /\ messages[MAX_MESSAGES].id[1] = messages[MAX_MESSAGES - 1].id[1]

\* The assistant message of the turn t is in the conversation, in thinking.
Thinking(msgs, t) ==
  \E i \in DOMAIN msgs :
    /\ msgs[i].id = AssistantId(turns[t].messageId)
    /\ msgs[i].status = "thinking"

\* C32: there is no timeout.  While a turn is suspended with its message
\* in thinking and the loading flag true, a step in which its request
\* neither delivers a line, closes nor fails, in which it is not
\* cancelled, and which is not clearMessages leaves the message in
\* thinking and the loading flag true; and a message leaves thinking only
\* in a step in which a turn returns (its stream closed, it failed or its
\* abort was delivered) or in clearMessages.
C32_NoTimeoutTransition ==
  [][/\ \A t \in DOMAIN turns :
          ( /\ turns[t].pc \in {"fetch", "json", "read"}
            /\ ~turns[t].aborted
            /\ isLoading
            /\ Thinking(messages, t)
            /\ turns'[t] = turns[t]
            /\ ~ClearMessages )
          => /\ isLoading'
             /\ Thinking(messages', t)
     /\ \A i \in DOMAIN messages :
          ( /\ messages[i].status = "thinking"
            /\ \/ i \notin DOMAIN messages'
               \/ messages'[i].status # "thinking" )
          => \/ ClearMessages
             \/ \E t \in DOMAIN turns : Returns(t)]_vars

\* C33: a change of the selected agent runs clearMessages: the step
\* empties the conversation and aborts every turn in flight; and at every
\* state each message of the conversation has the base id of a turn whose
\* request went to the endpoint of the agent selected now.
C33_AgentChangeClearsConversation ==
  /\ [](\A i \in DOMAIN messages :
          \E t \in DOMAIN turns :
            /\ turns[t].messageId = messages[i].id[1]
            /\ requests[t].endpoint =
                 <<backendUrl, "/api/agents/">>
                 \o encodeURIComponent(selectedAgent) \o <<"/messages">>)
  /\ [][\A agent \in Agents :
          SelectAgent(agent)
          => /\ messages' = <<>>
             /\ \A t \in TurnsInFlight : turns'[t].aborted]_vars

\* The assistant message a turn ends with when its whole body arrives in
\* one chunk.
WholeBody(base, stream) ==
  LET st == ProcessChunk(LoopState(<<AssistantMessage(base)>>, <<>>, ""),
                         AssistantId(base), FrameChunk(stream))
  IN  FinalPatch(st.messages[1], st.assistantText)

\* C34: however the body of the response was cut into chunks, the turn
\* ends with the assistant message it ends with when the body arrives in
\* one chunk.
C34_ChunkingDoesNotMatter ==
  \A t \in DOMAIN turns :
    (turns[t].outcome = "sent" /\ turns[t].stream # <<>>)
    => \A i \in DOMAIN messages :
         messages[i].id = AssistantId(turns[t].messageId)
         => messages[i] = WholeBody(turns[t].messageId, turns[t].stream)

\* C35: whenever the conversation holds an assistant message in status
\* thinking, the loading flag is true.
C35_ThinkingImpliesLoading ==
  (\E i \in DOMAIN messages :
     messages[i].sender = "assistant" /\ messages[i].status = "thinking")
  => isLoading

\* C36: while a turn is in flight and has not been aborted, the
\* cancellation handle holds the controller that turn created, so that
\* cancelRequest aborts it; and a step in which a turn returns neither
\* clears nor replaces the handle when it holds the controller of another
\* turn.
C36_HandleBelongsToTurnInFlight ==
  /\ [](\A t \in TurnsInFlight : ~turns[t].aborted => abortControllerRef = t)
  /\ [][\A t \in DOMAIN turns :
          (Returns(t) /\ abortControllerRef # 0 /\ abortControllerRef # t)
          => abortControllerRef' = abortControllerRef]_vars

\* The position in the conversation of the assistant message the turn t
\* created: pairs are appended in the order of admission and leave from
\* the front or all at once, so it is the last message but the pairs of
\* the turns admitted after t and not cleared; 0 when it has left.
Own(t) ==
  IF turns[t].cleared THEN 0
  ELSE LET later == {u \in DOMAIN turns : u > t /\ ~turns[u].cleared}
           i == Len(messages) - 2 * Cardinality(later)
       IN  IF i >= 1 THEN i ELSE 0

\* C37: a step of a turn (a stream line, the finalization, the error or
\* cancel patch) changes no message of the conversation but the assistant
\* message that turn created; a turn whose pair was cleared changes none.
C37_PatchLandsOnOwnMessage ==
  [][\A t \in DOMAIN turns :
       TurnStep(t)
       => /\ Len(messages') = Len(messages)
          /\ \A i \in DOMAIN messages :
               messages'[i] # messages[i] => i = Own(t)]_vars

\* C38: for every assistant message, isStreaming is true exactly when the
\* status is thinking, there is no transient status label when the status
\* is sent or error, and there is an error only when the status is error.
C38_FlagsAgreeWithStatus ==
  \A i \in DOMAIN messages :
    messages[i].sender = "assistant"
    => /\ (messages[i].isStreaming = <<TRUE>>) <=> (messages[i].status = "thinking")
       /\ messages[i].status \in {"sent", "error"}
          => messages[i].streamingStatus = <<>>
       /\ messages[i].error # <<>> => messages[i].status = "error"

\* C39: every assistant message in status error has an error text that is
\* not empty, and is among the messages Main renders.
C39_ErroredMessageIsShown ==
  \A i \in DOMAIN messages :
    (messages[i].sender = "assistant" /\ messages[i].status = "error")
    => /\ messages[i].error # <<>>
       /\ messages[i].error[1] # <<>>
       /\ \E k \in DOMAIN visibleMessages(messages) :
            visibleMessages(messages)[k] = messages[i]

====
